---- MODULE Spec2Model ----
(***************************************************************************)
(* A model of the native analysis engine of the-shoaib2/inline:            *)
(*   - packages/analyzer/src/ast_parser.rs : the process-wide parser and   *)
(*     grammar caches (static mut PARSERS / LANGUAGES), parse_ast,         *)
(*     query_ast, parse_files_parallel, clear_parser_cache,                *)
(*     get_cache_stats, as threads interleaving at the granularity of one  *)
(*     access to the shared statics per step;                              *)
(*   - packages/analyzer/src/duplication.rs : detect_duplicates.           *)
(***************************************************************************)
EXTENDS Integers, Sequences, FiniteSets, TLC

(***************************************************************************)
(* Bounds of the model.                                                    *)
(***************************************************************************)
\* threads that may call into the engine (callers and rayon workers)
NProcs == 2
\* calls of parse_ast / query_ast / clear / stats started in one behaviour
MaxCalls == 3
\* items of one parse_files_parallel batch
MaxBatch == 2

Procs == 1..NProcs

(***************************************************************************)
(* Inputs.  LangIds holds two ids the match of get_language accepts and    *)
(* one it rejects.  Codes holds one text the native parser returns a tree  *)
(* for and one ("bad") for which Parser::parse returns None.  Queries      *)
(* holds one query that compiles and one that does not.                    *)
(***************************************************************************)
LangIds == {"rust", "python", "cobol"}
Codes == {"src", "bad"}
Queries == {"(q)", "(("}

\* the match of get_language: the grammar each language id loads
LoadLanguage(id) ==
  CASE id \in {"typescript", "typescriptreact"} -> "tree_sitter_typescript"
    [] id \in {"javascript", "javascriptreact"} -> "tree_sitter_javascript"
    [] id = "python" -> "tree_sitter_python"
    [] id = "rust" -> "tree_sitter_rust"
    [] id = "go" -> "tree_sitter_go"
    [] id = "java" -> "tree_sitter_java"
    [] id \in {"cpp", "c"} -> "tree_sitter_cpp"
    [] id = "csharp" -> "tree_sitter_c_sharp"
    [] id = "ruby" -> "tree_sitter_ruby"
    [] id = "php" -> "tree_sitter_php"
    [] OTHER -> "unsupported"

Supported(id) == LoadLanguage(id) # "unsupported"

\* Parser::parse(&code, None): Some(tree) or None
ParserReturnsTree(c) == c # "bad"

\* Query::new(language, &query_string): Ok or Err
QueryCompiles(q) == q = "(q)"

(***************************************************************************)
(* Values.                                                                 *)
(***************************************************************************)
EmptyMap == [x \in {} |-> 0]

MapInsert(m, k, v) == [x \in (DOMAIN m) \cup {k} |-> IF x = k THEN v ELSE m[x]]

\* the values held in a map
Range(m) == {m[x] : x \in DOMAIN m}

\* a static before init_cache ran: None
NoCache == [some |-> FALSE, map |-> EmptyMap]

\* Some(HashMap::new())
NewCache == [some |-> TRUE, map |-> EmptyMap]

\* what a call returned
NoRet == [kind |-> "none", a |-> "", b |-> "", ub |-> FALSE, n1 |-> 0, n2 |-> 0]
OkTree(c, g) == [NoRet EXCEPT !.kind = "Ok", !.a = c, !.b = g]
OkMatches(c, g) == [NoRet EXCEPT !.kind = "Matches", !.a = c, !.b = g]
OkUnit == [NoRet EXCEPT !.kind = "Unit"]
OkStats(n, m) == [NoRet EXCEPT !.kind = "Stats", !.n1 = n, !.n2 = m]
ErrOf(reason) == [NoRet EXCEPT !.kind = "Err", !.a = reason]
ErrUnsupported == ErrOf("UnsupportedLanguage")
ErrParseFailed == ErrOf("ParseFailed")
ErrInvalidQuery == ErrOf("InvalidQuery")

\* a slot of Vec<Option<String>>
SlotPending == [kind |-> "pending", a |-> "", b |-> ""]
SlotNone == [kind |-> "None", a |-> "", b |-> ""]
SlotSome(c, g) == [kind |-> "Some", a |-> c, b |-> g]

IdleThread ==
  [pc |-> "idle", op |-> "none", lang |-> "", h |-> 0, newh |-> 0,
   tainted |-> FALSE, alone |-> TRUE, item |-> 0, ret |-> NoRet]

\* the call that returned last: its arguments and what it returned
NoLast ==
  [op |-> "none", lang |-> "", code |-> "", query |-> "", item |-> 0,
   alone |-> TRUE, ret |-> NoRet]

\* files and results are the call's input and output; rets (what parse_ast
\* returned for each item) and reordered (an item finished before an item
\* of lower index) are kept for the properties
NoBatch == [state |-> "idle", files |-> << >>, results |-> << >>, rets |-> << >>,
            taken |-> {}, reordered |-> FALSE]

\* overlap: two calls were in flight at once; n: parse_ast and query_ast
\* calls returned, ok: the ids of those that succeeded, failed: one of them
\* returned Err; cleared: the history starts at a clear_parser_cache, prior:
\* the parsers cached when it was called; created / loaded: the ids a
\* Parser was created / a grammar was loaded for, rehandle / reload: one of
\* them a second time
NoHist ==
  [overlap |-> FALSE, n |-> 0, ok |-> {}, failed |-> FALSE, cleared |-> FALSE,
   prior |-> 0, created |-> {}, loaded |-> {}, rehandle |-> FALSE,
   reload |-> FALSE]

\* the history is kept only while no two calls overlapped
HistCanon(h0) == IF h0.overlap THEN [NoHist EXCEPT !.overlap = TRUE] ELSE h0

VARIABLES
  PARSERS,     \* static mut PARSERS: Option<HashMap<String, Parser>>
  LANGUAGES,   \* static mut LANGUAGES: Option<HashMap<String, Language>>
  th,          \* each thread: its position in the call it runs and its locals
  last,        \* the call that returned last (not program state)
  calls,       \* calls started so far
  crashed,     \* the process panicked or aborted
  batch,       \* the parse_files_parallel call in progress
  hist,        \* history since the last clear_parser_cache (not program state)
  dIn,         \* detect_duplicates: the arguments code, context, min_length
  dPc,         \* detect_duplicates: "call" before the call, "done" after it
  dOut,        \* detect_duplicates: what the call gave
  dSim,        \* calculate_similarity(code, context), once it was called
  aIn,         \* node_to_ast: the arguments node, source
  aPc,         \* node_to_ast: "call" before the call, "done" after it
  aOut,        \* node_to_ast: the AstNode it gave
  hData,       \* StreamingHasher.hasher: the bytes it was fed
  hFed,        \* the data passed to update since the last reset, joined, and
               \* the number of these update calls (not program state)
  hOut,        \* hash.rs: the call that returned last and what it gave
  sIn,         \* semantic_analyzer.rs: the code and language id of the calls
  sOut,        \* semantic_analyzer.rs: the call that returned last, its result
  tIn,         \* text_processor.rs: the function called, code and language id
  tPc,         \* text_processor.rs: "call" before the call, "done" after it
  tOut         \* text_processor.rs: what the call gave

cacheVars == <<PARSERS, LANGUAGES, th, last, calls, crashed, batch, hist>>
dupVars == <<dIn, dPc, dOut, dSim>>
astVars == <<aIn, aPc, aOut>>
hashVars == <<hData, hFed, hOut>>
semVars == <<sIn, sOut>>
textVars == <<tIn, tPc, tOut>>
pureVars == <<dupVars, astVars, hashVars, semVars, textVars>>
vars == <<cacheVars, pureVars>>

(***************************************************************************)
(* Helpers on the threads.                                                 *)
(***************************************************************************)
OthersInFlight(p) == \E q \in Procs \ {p} : th[q].pc # "idle"

Quiescent == \A p \in Procs : th[p].pc = "idle"

\* the labels at which a thread is inside Parser::parse with the handle h
Driving == {"pa_parse", "qa_parse"}

\* Idle threads are all alike: a new call runs on the first idle one.
FirstIdle(p) == th[p].pc = "idle" /\ \A q \in 1..(p - 1) : th[q].pc # "idle"

\* What the caller of the last call or batch was handed is its own: the
\* model forgets it when the next call starts.
BatchKept == IF batch.state = "done" THEN NoBatch ELSE batch

\* thread p starts a call with the locals rec; calls that overlap are marked
Started(p, rec) ==
  [q \in Procs |->
     IF q = p THEN [rec EXCEPT !.alone = ~OthersInFlight(p)]
     ELSE IF th[q].pc # "idle" THEN [th[q] EXCEPT !.alone = FALSE]
     ELSE th[q]]

\* the Parser objects in X were dropped: a thread still holding a reference
\* to one of them now holds a dangling reference
Taint(t, X) ==
  [q \in Procs |->
     IF t[q].h \in X THEN [t[q] EXCEPT !.tainted = TRUE] ELSE t[q]]

\* thread p begins Parser::parse on its handle: two threads inside
\* Parser::parse on one handle race on the parser's state
EnterDrive(t, p) ==
  LET racers == {q \in Procs \ {p} : t[q].pc \in Driving /\ t[q].h = t[p].h}
  IN [q \in Procs |->
        IF racers # {} /\ q \in racers \cup {p}
        THEN [t[q] EXCEPT !.tainted = TRUE] ELSE t[q]]

(***************************************************************************)
(* parse_files_parallel, lines 208-221.                                    *)
(***************************************************************************)
\* .unwrap_or(None) on parse_ast's Result<Option<String>>, line 216
UnwrapOrNone(r) == IF r.kind = "Ok" THEN SlotSome(r.a, r.b) ELSE SlotNone

\* a variant of Collect that appends results in the order the workers finish
CollectByCompletion(results, i, v) ==
  LET k == CHOOSE k \in 1..Len(results) :
             /\ results[k] = SlotPending
             /\ \A j \in 1..(k - 1) : results[j] # SlotPending
  IN [results EXCEPT ![k] = v]

\* rayon's indexed collect, line 218: the value of item i goes to index i
Collect(results, i, v) == [results EXCEPT ![i] = v]

\* the batch after the worker of item i got r from parse_ast on the code c
BatchAfter(i, r, c) ==
  [batch EXCEPT !.results = Collect(batch.results, i, UnwrapOrNone(r)),
                !.rets = [batch.rets EXCEPT ![i] = r],
                !.reordered = @ \/ \E j \in 1..(i - 1) : batch.rets[j] = NoRet,
                !.files = [batch.files EXCEPT ![i] = <<c, @[2]>>]]

(***************************************************************************)
(* History bookkeeping.                                                    *)
(***************************************************************************)
HistAfter(h0, p, r) ==
  HistCanon(IF th[p].op \in {"parse_ast", "query_ast"}
            THEN [h0 EXCEPT !.n = @ + 1,
                            !.ok = IF r.kind \in {"Ok", "Matches"}
                                   THEN @ \cup {th[p].lang} ELSE @,
                            !.failed = @ \/ r.kind = "Err"]
            ELSE h0)

\* thread p returns r from its call on the code c and the query q; t is th
\* as changed by the step so far
Return(p, r, c, q, t, h0) ==
  /\ th' = [t EXCEPT ![p] = IdleThread]
  /\ last' = [op |-> th[p].op, lang |-> th[p].lang, code |-> c, query |-> q,
              item |-> th[p].item, alone |-> th[p].alone, ret |-> r]
  /\ batch' = IF th[p].item = 0 THEN batch ELSE BatchAfter(th[p].item, r, c)
  /\ hist' = HistAfter(h0, p, r)

\* thread p panics (unwrap on None, line 107) or the parser's race ends
\* the process: nothing of the process's state is left, and a batch in
\* progress never returns
Abort(p) ==
  /\ crashed' = TRUE
  /\ th' = [q \in Procs |-> IdleThread]
  /\ batch' = [NoBatch EXCEPT !.state = IF batch.state = "running"
                                        THEN "panicked" ELSE "idle"]
  /\ PARSERS' = NoCache /\ LANGUAGES' = NoCache
  /\ last' = NoLast /\ hist' = NoHist
  /\ calls' = MaxCalls
  /\ UNCHANGED pureVars

(***************************************************************************)
(* The calls a thread may start.  The code text is first read by           *)
(* Parser::parse (line 125) and the query text by Query::new (line 175),   *)
(* so a caller's choice of them is drawn at those steps.                   *)
(***************************************************************************)
Sites == {"gp", "gl", "ql", "st"}
IcCheck == [gp |-> "gp_ic", gl |-> "gl_ic", ql |-> "ql_ic", st |-> "st_ic"]
IcWriteP == [gp |-> "gp_icP", gl |-> "gl_icP", ql |-> "ql_icP", st |-> "st_icP"]
IcCheckL == [gp |-> "gp_icC", gl |-> "gl_icC", ql |-> "ql_icC", st |-> "st_icC"]
IcWriteL == [gp |-> "gp_icL", gl |-> "gl_icL", ql |-> "ql_icL", st |-> "st_icL"]
IcDone == [gp |-> "gp_contains", gl |-> "gl_get", ql |-> "ql_get", st |-> "st_read"]

\* A static that is Some stays Some (clear_parser_cache assigns Some too), so
\* an init_cache that finds both statics set commutes with every other step
\* and is taken together with the step before it.
InitCacheFrom(s) ==
  IF PARSERS.some /\ LANGUAGES.some THEN IcDone[s] ELSE IcCheck[s]

CallParseAst(p, l) ==
  /\ ~crashed /\ FirstIdle(p) /\ calls < MaxCalls
  /\ th' = Started(p, [IdleThread EXCEPT !.pc = InitCacheFrom("gp"),
                                         !.op = "parse_ast", !.lang = l])
  /\ calls' = calls + 1
  /\ hist' = HistCanon([hist EXCEPT !.overlap = @ \/ OthersInFlight(p)])
  /\ last' = NoLast /\ batch' = BatchKept
  /\ UNCHANGED <<PARSERS, LANGUAGES, crashed>>
  /\ UNCHANGED pureVars

CallQueryAst(p, l) ==
  /\ ~crashed /\ FirstIdle(p) /\ calls < MaxCalls
  /\ th' = Started(p, [IdleThread EXCEPT !.pc = InitCacheFrom("gp"),
                                         !.op = "query_ast", !.lang = l])
  /\ calls' = calls + 1
  /\ hist' = HistCanon([hist EXCEPT !.overlap = @ \/ OthersInFlight(p)])
  /\ last' = NoLast /\ batch' = BatchKept
  /\ UNCHANGED <<PARSERS, LANGUAGES, crashed>>
  /\ UNCHANGED pureVars

CallClearParserCache(p) ==
  /\ ~crashed /\ FirstIdle(p) /\ calls < MaxCalls
  /\ th' = Started(p, [IdleThread EXCEPT !.pc = "cl_parsers",
                                         !.op = "clear_parser_cache"])
  /\ calls' = calls + 1
  /\ hist' = HistCanon([NoHist EXCEPT
                          !.cleared = TRUE,
                          !.prior = Cardinality(DOMAIN PARSERS.map),
                          !.overlap = OthersInFlight(p)])
  /\ last' = NoLast /\ batch' = BatchKept
  /\ UNCHANGED <<PARSERS, LANGUAGES, crashed>>
  /\ UNCHANGED pureVars

CallGetCacheStats(p) ==
  /\ ~crashed /\ FirstIdle(p) /\ calls < MaxCalls
  /\ th' = Started(p, [IdleThread EXCEPT !.pc = InitCacheFrom("st"),
                                         !.op = "get_cache_stats"])
  /\ calls' = calls + 1
  /\ hist' = HistCanon([hist EXCEPT !.overlap = @ \/ OthersInFlight(p)])
  /\ last' = NoLast /\ batch' = BatchKept
  /\ UNCHANGED <<PARSERS, LANGUAGES, crashed>>
  /\ UNCHANGED pureVars

\* parse_files_parallel(files): the caller blocks until collect() is done.
\* files[i] is <<code, language id>>; the code, "?" here, is drawn when the
\* item's parse reads it.
BatchStart(files) ==
  /\ ~crashed /\ batch.state \in {"idle", "done"}
  /\ calls + Len(files) <= MaxCalls
  /\ last' = NoLast
  /\ batch' = [state |-> "running", files |-> files,
               results |-> [i \in 1..Len(files) |-> SlotPending],
               rets |-> [i \in 1..Len(files) |-> NoRet],
               taken |-> {}, reordered |-> FALSE]
  /\ calls' = calls + Len(files)
  /\ UNCHANGED <<PARSERS, LANGUAGES, th, crashed, hist>>
  /\ UNCHANGED pureVars

\* a rayon worker takes item i and runs the closure of line 215 on it
WorkerTake(p, i) ==
  /\ ~crashed /\ FirstIdle(p) /\ batch.state = "running"
  /\ i \in (1..Len(batch.files)) \ batch.taken
  /\ th' = Started(p, [IdleThread EXCEPT !.pc = InitCacheFrom("gp"),
                                         !.op = "parse_ast",
                                         !.lang = batch.files[i][2],
                                         !.item = i])
  /\ batch' = [batch EXCEPT !.taken = @ \cup {i}]
  /\ hist' = HistCanon([hist EXCEPT !.overlap = @ \/ OthersInFlight(p)])
  /\ last' = NoLast
  /\ UNCHANGED <<PARSERS, LANGUAGES, calls, crashed>>
  /\ UNCHANGED pureVars

\* collect() has every item: Ok(results), line 220
BatchReturn ==
  /\ ~crashed /\ batch.state = "running"
  /\ \A i \in 1..Len(batch.files) : batch.results[i] # SlotPending
  /\ batch' = [batch EXCEPT !.state = "done"]
  /\ UNCHANGED <<PARSERS, LANGUAGES, th, last, calls, crashed, hist>>
  /\ UNCHANGED pureVars

(***************************************************************************)
(* init_cache, lines 48-57, as called from get_parser (site "gp"),         *)
(* get_language (site "gl" under get_parser, "ql" under query_ast) and     *)
(* get_cache_stats (site "st").  The is_none test and the assignment are   *)
(* separate accesses to the static: another thread may run between them.   *)
(***************************************************************************)

\* line 50 (and, PARSERS being Some for good once it is, line 53)
InitCacheCheck(p, s) ==
  /\ ~crashed /\ th[p].pc = IcCheck[s]
  /\ th' = [th EXCEPT ![p].pc = IF ~PARSERS.some THEN IcWriteP[s]
                                ELSE IF ~LANGUAGES.some THEN IcWriteL[s]
                                ELSE IcDone[s]]
  /\ UNCHANGED <<PARSERS, LANGUAGES, last, calls, crashed, batch, hist>>
  /\ UNCHANGED pureVars

\* line 51: PARSERS = Some(HashMap::new()); the map it replaces is dropped
InitCacheWriteParsers(p, s) ==
  /\ ~crashed /\ th[p].pc = IcWriteP[s]
  /\ PARSERS' = NewCache
  /\ th' = [Taint(th, Range(PARSERS.map)) EXCEPT ![p].pc = IcCheckL[s]]
  /\ UNCHANGED <<LANGUAGES, last, calls, crashed, batch, hist>>
  /\ UNCHANGED pureVars

\* line 53
InitCacheCheckLanguages(p, s) ==
  /\ ~crashed /\ th[p].pc = IcCheckL[s]
  /\ th' = [th EXCEPT ![p].pc = IF ~LANGUAGES.some THEN IcWriteL[s]
                                ELSE IcDone[s]]
  /\ UNCHANGED <<PARSERS, LANGUAGES, last, calls, crashed, batch, hist>>
  /\ UNCHANGED pureVars

\* line 54: LANGUAGES = Some(HashMap::new())
InitCacheWriteLanguages(p, s) ==
  /\ ~crashed /\ th[p].pc = IcWriteL[s]
  /\ LANGUAGES' = NewCache
  /\ th' = [th EXCEPT ![p].pc = IcDone[s]]
  /\ UNCHANGED <<PARSERS, last, calls, crashed, batch, hist>>
  /\ UNCHANGED pureVars

(***************************************************************************)
(* get_parser, lines 93-113.                                               *)
(***************************************************************************)
\* the Parser objects some map entry or some thread refers to
HandlesInUse ==
  Range(PARSERS.map) \cup {th[q].h : q \in Procs} \cup {th[q].newh : q \in Procs}

\* Parser::new(), line 99: a parser that is none of the existing ones
NewParser == CHOOSE n \in 1..(2 * NProcs + Cardinality(LangIds) + 1) :
               /\ n \notin HandlesInUse
               /\ \A m \in 1..(n - 1) : m \in HandlesInUse

\* a variant of ParsersContain that never finds the key
ParsersContainNever(l) == FALSE

\* parsers.contains_key(language_id), line 98
ParsersContain(l) == l \in DOMAIN PARSERS.map

\* lines 98-99: on a miss Parser::new() makes a parser local to the thread
GetParserContains(p) ==
  /\ ~crashed /\ th[p].pc = "gp_contains"
  /\ IF ParsersContain(th[p].lang)
     THEN /\ th' = [th EXCEPT ![p].pc = "gp_getmut"]
          /\ UNCHANGED hist
     ELSE /\ th' = [th EXCEPT ![p].pc = InitCacheFrom("gl"),
                                ![p].newh = NewParser]
          /\ hist' = HistCanon([hist EXCEPT
                        !.created = @ \cup {th[p].lang},
                        !.rehandle = @ \/ th[p].lang \in hist.created])
  /\ UNCHANGED <<PARSERS, LANGUAGES, last, calls, crashed, batch>>
  /\ UNCHANGED pureVars

\* lines 101-103: set_language, then parsers.insert(id, parser); a parser
\* already stored under the id is dropped by the insert
GetParserInsert(p) ==
  /\ ~crashed /\ th[p].pc = "gp_insert"
  /\ PARSERS' = [PARSERS EXCEPT !.map = MapInsert(@, th[p].lang, th[p].newh)]
  /\ th' = [Taint(th, IF th[p].lang \in DOMAIN PARSERS.map
                      THEN {PARSERS.map[th[p].lang]} ELSE {})
              EXCEPT ![p].pc = "gp_getmut", ![p].newh = 0]
  /\ UNCHANGED <<LANGUAGES, last, calls, crashed, batch, hist>>
  /\ UNCHANGED pureVars

\* lines 107-108: parsers.get_mut(id).unwrap() as a &'static mut Parser.
\* parse_ast goes on to Parser::parse (line 125), query_ast to get_language
\* (line 170).
GetParserGetMut(p) ==
  /\ ~crashed /\ th[p].pc = "gp_getmut"
  /\ IF th[p].lang \notin DOMAIN PARSERS.map
     THEN Abort(p)
     ELSE /\ th' = LET t == [th EXCEPT ![p].h = PARSERS.map[th[p].lang],
                                       ![p].pc = IF th[p].op = "parse_ast"
                                                 THEN "pa_parse"
                                                 ELSE InitCacheFrom("ql")]
                    IN IF th[p].op = "parse_ast" THEN EnterDrive(t, p) ELSE t
          /\ UNCHANGED <<PARSERS, LANGUAGES, last, calls, crashed, batch, hist>>
          /\ UNCHANGED pureVars

(***************************************************************************)
(* get_language, lines 60-90.                                              *)
(***************************************************************************)
GlGet == [gl |-> "gl_get", ql |-> "ql_get"]

\* a variant of LanguagesAfterGet that records the id before matching it
LanguagesAfterGetTombstone(l) ==
  MapInsert(LANGUAGES.map, l, LoadLanguage(l))

\* lines 65-84: LANGUAGES after get_language(l): unchanged on a hit and for
\* an id outside the match, else with the loaded grammar inserted
LanguagesAfterGet(l) ==
  IF l \in DOMAIN LANGUAGES.map \/ ~Supported(l)
  THEN LANGUAGES.map
  ELSE MapInsert(LANGUAGES.map, l, LoadLanguage(l))

\* lines 64-88 for the call site s
GetLanguage(p, s) ==
  /\ ~crashed /\ th[p].pc = GlGet[s]
  /\ LANGUAGES' = [LANGUAGES EXCEPT !.map = LanguagesAfterGet(th[p].lang)]
  /\ LET l == th[p].lang
         hit == l \in DOMAIN LANGUAGES.map
         h1 == IF hit \/ ~Supported(l) THEN hist
               ELSE HistCanon([hist EXCEPT !.loaded = @ \cup {l},
                                           !.reload = @ \/ l \in hist.loaded])
     IN IF ~hit /\ ~Supported(l)
        THEN Return(p, ErrUnsupported, "", "", th, h1)
        ELSE /\ th' = IF s = "gl" THEN [th EXCEPT ![p].pc = "gp_insert"]
                      ELSE EnterDrive([th EXCEPT ![p].pc = "qa_parse"], p)
             /\ hist' = h1
             /\ UNCHANGED <<last, batch>>
  /\ UNCHANGED <<PARSERS, calls, crashed>>
  /\ UNCHANGED pureVars

(***************************************************************************)
(* parse_ast, lines 122-134, after get_parser returned the handle.         *)
(***************************************************************************)
\* what a parse that raced on its parser, or ran on a dropped parser, may
\* give: its own result, a tree that is not the tree of its input, no tree,
\* or the end of the process
RaceOutcomes == {"own", "corrupt", "none", "abort"}

\* a variant in which a parse that gives no tree is not noticed
ParseResultAlwaysTree(c, l) == OkTree(c, LoadLanguage(l))

\* lines 125-133 on a parser no other thread touched
ParseResult(c, l) ==
  IF ParserReturnsTree(c) THEN OkTree(c, LoadLanguage(l)) ELSE ErrParseFailed

\* the same under a race, for the outcome o
RacedParseResult(c, l, o) ==
  [(CASE o = "own" -> ParseResult(c, l)
      [] o = "corrupt" -> OkTree("corrupt", LoadLanguage(l))
      [] OTHER -> ErrParseFailed) EXCEPT !.ub = TRUE]

ParseAstParse(p, c) ==
  /\ ~crashed /\ th[p].pc = "pa_parse" /\ ~th[p].tainted
  /\ Return(p, ParseResult(c, th[p].lang), c, "", th, hist)
  /\ UNCHANGED <<PARSERS, LANGUAGES, calls, crashed>>
  /\ UNCHANGED pureVars

ParseAstParseRaced(p, c, o) ==
  /\ ~crashed /\ th[p].pc = "pa_parse" /\ th[p].tainted
  /\ IF o = "abort" THEN Abort(p)
     ELSE /\ Return(p, RacedParseResult(c, th[p].lang, o), c, "", th, hist)
          /\ UNCHANGED <<PARSERS, LANGUAGES, calls, crashed>>
          /\ UNCHANGED pureVars

(***************************************************************************)
(* query_ast, lines 164-202, after get_parser and get_language.            *)
(***************************************************************************)
\* lines 172-173
QueryAstParse(p, c) ==
  /\ ~crashed /\ th[p].pc = "qa_parse" /\ ~th[p].tainted
  /\ LET r == ParseResult(c, th[p].lang)
     IN IF r.kind = "Ok"
        THEN /\ th' = [th EXCEPT ![p].pc = "qa_query", ![p].ret = r, ![p].h = 0]
             /\ UNCHANGED <<last, batch, hist>>
        ELSE Return(p, r, c, "", th, hist)
  /\ UNCHANGED <<PARSERS, LANGUAGES, calls, crashed>>
  /\ UNCHANGED pureVars

QueryAstParseRaced(p, c, o) ==
  /\ ~crashed /\ th[p].pc = "qa_parse" /\ th[p].tainted
  /\ IF o = "abort" THEN Abort(p)
     ELSE /\ LET r == RacedParseResult(c, th[p].lang, o)
             IN IF r.kind = "Ok"
                THEN /\ th' = [th EXCEPT ![p].pc = "qa_query", ![p].ret = r,
                                         ![p].h = 0, ![p].tainted = FALSE]
                     /\ UNCHANGED <<last, batch, hist>>
                ELSE Return(p, r, c, "", th, hist)
          /\ UNCHANGED <<PARSERS, LANGUAGES, calls, crashed>>
          /\ UNCHANGED pureVars

\* lines 175-201: compile the query, run it over the tree
QueryAstQuery(p, q) ==
  /\ ~crashed /\ th[p].pc = "qa_query"
  /\ Return(p, IF QueryCompiles(q)
               THEN [th[p].ret EXCEPT !.kind = "Matches"]
               ELSE ErrInvalidQuery, th[p].ret.a, q, th, hist)
  /\ UNCHANGED <<PARSERS, LANGUAGES, calls, crashed>>
  /\ UNCHANGED pureVars

(***************************************************************************)
(* clear_parser_cache, lines 225-230.                                      *)
(***************************************************************************)
\* line 227: PARSERS = Some(HashMap::new())
ClearedParsers == NewCache

\* a variant of ClearedLanguages that keeps the grammars
ClearedLanguagesKept == LANGUAGES

\* line 228: LANGUAGES = Some(HashMap::new())
ClearedLanguages == NewCache

\* line 227; every Parser of the old map is dropped
ClearParsers(p) ==
  /\ ~crashed /\ th[p].pc = "cl_parsers"
  /\ PARSERS' = ClearedParsers
  /\ th' = [Taint(th, Range(PARSERS.map)) EXCEPT ![p].pc = "cl_languages"]
  /\ UNCHANGED <<LANGUAGES, last, calls, crashed, batch, hist>>
  /\ UNCHANGED pureVars

\* line 228
ClearLanguages(p) ==
  /\ ~crashed /\ th[p].pc = "cl_languages"
  /\ LANGUAGES' = ClearedLanguages
  /\ Return(p, OkUnit, "", "", th, hist)
  /\ UNCHANGED <<PARSERS, calls, crashed>>
  /\ UNCHANGED pureVars

(***************************************************************************)
(* get_cache_stats, lines 240-248, after its init_cache.                   *)
(***************************************************************************)
\* lines 244-245: the two lengths, 0 for a static that is None
CacheStats ==
  <<IF PARSERS.some THEN Cardinality(DOMAIN PARSERS.map) ELSE 0,
    IF LANGUAGES.some THEN Cardinality(DOMAIN LANGUAGES.map) ELSE 0>>

GetCacheStatsRead(p) ==
  /\ ~crashed /\ th[p].pc = "st_read"
  /\ Return(p, OkStats(CacheStats[1], CacheStats[2]), "", "", th, hist)
  /\ UNCHANGED <<PARSERS, LANGUAGES, calls, crashed>>
  /\ UNCHANGED pureVars

(***************************************************************************)
(* The engine: threads calling into the caches.                            *)
(***************************************************************************)
(***************************************************************************)
(* detect_duplicates (duplication.rs).  A text is a sequence of one-char   *)
(* strings; a similarity is the exact ratio num/den of the f64 division,   *)
(* compared by cross-multiplication (the ratios that occur have small      *)
(* numerators and denominators, so the f64 quotient orders as the ratio).  *)
(***************************************************************************)
MaxLines == 3
MaxMinLength == 3

NL == "\n"
CR == "\r"
Whitespace == {" ", NL, CR, "\t"}

DefaultMinLength == 20
MaxWindow == 50

Min(a, b) == IF a < b THEN a ELSE b
Max(a, b) == IF a > b THEN a ELSE b

\* the pieces of t between the characters of seps, empty pieces included:
\* a piece starts at 1 and after each separator, and ends before the next
Split(t, seps) ==
  LET n == Len(t)
      IsStart(k) == k = 1 \/ t[k - 1] \in seps
      PieceEnd(k) == CHOOSE j \in (k - 1)..n :
                       /\ j = n \/ t[j + 1] \in seps
                       /\ \A m \in k..j : t[m] \notin seps
      starts == SelectSeq([k \in 1..(n + 1) |-> k], IsStart)
  IN [p \in 1..Len(starts) |-> SubSeq(t, starts[p], PieceEnd(starts[p]))]

\* str::lines(): split at "\n", an empty piece after the last "\n" is no
\* line, and the "\r" of a "\r\n" ending is dropped with the "\n".
StripCR(piece) ==
  IF piece # << >> /\ piece[Len(piece)] = CR
    THEN SubSeq(piece, 1, Len(piece) - 1)
    ELSE piece

Lines(t) ==
  LET pieces == Split(t, {NL})
      n == Len(pieces)
      kept == IF pieces[n] = << >> THEN n - 1 ELSE n
  IN [k \in 1..kept |-> IF k < n THEN StripCR(pieces[k]) ELSE pieces[k]]

\* str::split_whitespace()
SplitWhitespace(t) ==
  SelectSeq(Split(t, Whitespace), LAMBDA w : w # << >>)

\* [&str]::join("\n")
RECURSIVE JoinNL(_)
JoinNL(ls) ==
  IF ls = << >> THEN << >>
  ELSE IF Len(ls) = 1 THEN ls[1]
  ELSE LET half == Len(ls) \div 2
       IN JoinNL(SubSeq(ls, 1, half)) \o <<NL>>
            \o JoinNL(SubSeq(ls, half + 1, Len(ls)))

\* memmem::find(haystack, needle).is_some()
Find(haystack, needle) ==
  \E k \in 0..(Len(haystack) - Len(needle)) :
    SubSeq(haystack, k + 1, k + Len(needle)) = needle

\* variants: the ratio of the word counts alone; the smaller count as divisor
calculate_similarityByLength(s1, s2) ==
  LET words1 == SplitWhitespace(s1)
      words2 == SplitWhitespace(s2)
      total == Max(Len(words1), Len(words2))
  IN IF total = 0 THEN [num |-> 0, den |-> 1]
                  ELSE [num |-> Min(Len(words1), Len(words2)), den |-> total]

calculate_similarityMinTotal(s1, s2) ==
  LET words1 == SplitWhitespace(s1)
      words2 == SplitWhitespace(s2)
      common == Cardinality({k \in 1..Len(words1) :
                               \E m \in 1..Len(words2) : words2[m] = words1[k]})
      total == Min(Len(words1), Len(words2))
  IN IF total = 0 THEN [num |-> 0, den |-> 1]
                  ELSE [num |-> common, den |-> total]

calculate_similaritySumTotal(s1, s2) ==
  LET words1 == SplitWhitespace(s1)
      words2 == SplitWhitespace(s2)
      matches == Len(SelectSeq(words1, LAMBDA w : w \in Range(words2)))
      total == Len(words1) + Len(words2)
  IN IF total = 0 THEN [num |-> 0, den |-> 1]
                  ELSE [num |-> matches, den |-> total]

calculate_similarity(s1, s2) ==
  LET words1 == SplitWhitespace(s1)
      words2 == SplitWhitespace(s2)
      common == Cardinality({k \in 1..Len(words1) :
                               \E m \in 1..Len(words2) : words2[m] = words1[k]})
      total == Max(Len(words1), Len(words2))
  IN IF total = 0 THEN [num |-> 0, den |-> 1]
                  ELSE [num |-> common, den |-> total]

\* similarity > 0.8
AboveThreshold(s) == 5 * s.num > 4 * s.den

\* b.similarity.partial_cmp(&a.similarity): a sorts before b when a >= b
SimGreater(a, b) == a.num * b.den > b.num * a.den

\* the windows of one size, in order of their first line
ScanWindows(code_lines, context, window_size, i) ==
  LET Window(start) ==
        LET window_text ==
              JoinNL(SubSeq(code_lines, start + 1, start + window_size))
        IN [text |-> window_text, start_line |-> start,
            end_line |-> start + window_size,
            similarity |-> calculate_similarity(window_text, context)]
      windows == [k \in 1..(Len(code_lines) - window_size - i + 1) |->
                    Window(i + k - 1)]
  IN SelectSeq(windows, LAMBDA d : /\ Find(context, d.text)
                                  /\ AboveThreshold(d.similarity))

\* a variant that also scans the size below min_len
RECURSIVE ScanSizesBelowMin(_, _, _, _)
ScanSizesBelowMin(code_lines, context, window_size, min_len) ==
  IF window_size < min_len - 1 \/ window_size < 1 THEN << >>
  ELSE ScanWindows(code_lines, context, window_size, 0)
         \o ScanSizesBelowMin(code_lines, context, window_size - 1, min_len)

\* the window sizes from the largest down to min_len
RECURSIVE ScanSizes(_, _, _, _)
ScanSizes(code_lines, context, window_size, min_len) ==
  IF window_size < min_len THEN << >>
  ELSE ScanWindows(code_lines, context, window_size, 0)
         \o ScanSizes(code_lines, context, window_size - 1, min_len)

ranges_overlapHalfOpen(start1, end1, start2, end2) ==
  start1 < end2 /\ start2 < end1

\* a variant that also takes ranges one line apart as overlapping
ranges_overlapNear(start1, end1, start2, end2) ==
  start1 <= end2 + 1 /\ start2 <= end1 + 1

ranges_overlap(start1, end1, start2, end2) ==
  start1 <= end2 /\ start2 <= end1

\* Vec::sort_by is stable: an element comes after the elements of greater
\* similarity and after the earlier elements of equal similarity.

\* a variant that leaves the spans in the order they were found
SortBySimilarityUnsorted(sorted, rest) == sorted \o rest

\* a variant that is not stable: spans of equal similarity change places
SortBySimilarityTiesReversed(sorted, rest) ==
  LET all == sorted \o rest
      n == Len(all)
      pos == [k \in 1..n |->
                1 + Cardinality({j \in 1..n :
                      \/ SimGreater(all[j].similarity, all[k].similarity)
                      \/ /\ j > k
                         /\ ~SimGreater(all[k].similarity, all[j].similarity)})]
  IN [p \in 1..n |-> all[CHOOSE k \in 1..n : pos[k] = p]]

SortBySimilarity(sorted, rest) ==
  LET all == sorted \o rest
      n == Len(all)
      pos == [k \in 1..n |->
                1 + Cardinality({j \in 1..n :
                      \/ SimGreater(all[j].similarity, all[k].similarity)
                      \/ /\ j < k
                         /\ ~SimGreater(all[k].similarity, all[j].similarity)})]
  IN [p \in 1..n |-> all[CHOOSE k \in 1..n : pos[k] = p]]

RemoveAt(s, j) == SubSeq(s, 1, j - 1) \o SubSeq(s, j + 1, Len(s))

\* the loops of deduplicate_results, i and j counted from 1
RECURSIVE DedupInner(_, _, _)
DedupInner(ds, i, j) ==
  IF j > Len(ds) THEN ds
  ELSE IF ranges_overlap(ds[i].start_line, ds[i].end_line,
                         ds[j].start_line, ds[j].end_line)
         THEN DedupInner(RemoveAt(ds, j), i, j)
         ELSE DedupInner(ds, i, j + 1)

RECURSIVE DedupOuter(_, _)
DedupOuter(ds, i) ==
  IF i > Len(ds) THEN ds
  ELSE DedupOuter(DedupInner(ds, i, i + 1), i + 1)

deduplicate_results(duplicates) ==
  DedupOuter(SortBySimilarity(<< >>, duplicates), 1)

NoMinLength == -1
Panicked == [panic |-> TRUE, spans |-> << >>]

\* slice::windows(0) panics, and the range of window sizes ends at min_len
detect_duplicates(code, context, min_length) ==
  LET min_len == IF min_length = NoMinLength THEN DefaultMinLength
                                             ELSE min_length
      code_lines == Lines(code)
      largest == Min(Len(code_lines), MaxWindow)
  IN IF min_len = 0 THEN Panicked
     ELSE [panic |-> FALSE,
           spans |-> deduplicate_results(
                       ScanSizes(code_lines, context, largest, min_len))]

\* The arguments the calls are checked with: texts of up to MaxLines lines
\* out of a few lines, against themselves and against each single line.
Line5 == <<"a", " ", "a", " ", "a", " ", "a", " ", "a">>
Line6 == Line5 \o <<" ", "b">>
LineVocab == {<<"a">>, <<"x">>, << >>, Line5, Line6}
LineSeqs == UNION {[1..n -> LineVocab] : n \in 0..MaxLines}
\* one candidate has more lines than the largest window
LongCode == JoinNL([k \in 1..(MaxWindow + 1) |-> <<"a">>])
\* one candidate has a "\r\n" line ending
CrlfCode == <<"a", CR, NL, "x">>
DupCodes ==
  {JoinNL(ls) : ls \in LineSeqs} \cup {JoinNL(ls) \o <<NL>> : ls \in LineSeqs}
    \cup {LongCode, CrlfCode}
DupContexts(code) ==
  {code} \cup LineVocab \cup {JoinNL(<<Line6, <<"a">>>>), <<"x", "a">>}
MinLengths == {NoMinLength} \cup 0..MaxMinLength

DupIdle == [code |-> << >>, context |-> << >>, min_length |-> NoMinLength]
NoOut == [panic |-> FALSE, spans |-> << >>]
NoSim == [num |-> 0, den |-> 0]

DetectDuplicates ==
  /\ dPc = "call"
  /\ dPc' = "done"
  /\ dOut' = detect_duplicates(dIn.code, dIn.context, dIn.min_length)
  /\ UNCHANGED <<dIn, dSim, cacheVars, astVars, hashVars, semVars, textVars>>

CalculateSimilarity ==
  /\ dPc # "idle"
  /\ dSim = NoSim
  /\ dSim' = calculate_similarity(dIn.code, dIn.context)
  /\ UNCHANGED <<dIn, dPc, dOut, cacheVars, astVars, hashVars, semVars, textVars>>

(***************************************************************************)
(* node_to_ast (ast_parser.rs).  A source is a sequence of bytes, a native *)
(* node is what tree_sitter::Node gives: kind, byte range, positions and   *)
(* children.                                                               *)
(***************************************************************************)
MaxDepth == 2
MaxChildren == 2

\* Option<String>
NoText == [some |-> FALSE, value |-> << >>]
SomeText(bytes) == [some |-> TRUE, value |-> bytes]

\* std::str::from_utf8(bytes).is_ok(): the well-formed byte sequences of
\* one to four bytes, one after the other
IsCont(b) == 128 <= b /\ b <= 191
RECURSIVE Utf8Valid(_)
Utf8Valid(bytes) ==
  LET n == Len(bytes)
      b1 == bytes[1]
      Rest(k) == Utf8Valid(SubSeq(bytes, k + 1, n))
  IN IF n = 0 THEN TRUE
     ELSE IF b1 < 128 THEN Rest(1)
     ELSE IF 194 <= b1 /\ b1 <= 223
       THEN n >= 2 /\ IsCont(bytes[2]) /\ Rest(2)
     ELSE IF 224 <= b1 /\ b1 <= 239
       THEN /\ n >= 3
            /\ IsCont(bytes[2]) /\ IsCont(bytes[3])
            /\ b1 = 224 => bytes[2] >= 160
            /\ b1 = 237 => bytes[2] <= 159
            /\ Rest(3)
     ELSE IF 240 <= b1 /\ b1 <= 244
       THEN /\ n >= 4
            /\ IsCont(bytes[2]) /\ IsCont(bytes[3]) /\ IsCont(bytes[4])
            /\ b1 = 240 => bytes[2] >= 144
            /\ b1 = 244 => bytes[2] <= 143
            /\ Rest(4)
     ELSE FALSE

\* Node::utf8_text(source).unwrap_or(""): the bytes of the node's range as
\* a str, the empty string when they are no UTF-8
Utf8TextOrEmpty(node, source) ==
  LET bytes == SubSeq(source, node.start_byte + 1, node.end_byte)
  IN IF Utf8Valid(bytes) THEN bytes ELSE << >>

\* a variant: the text of a leaf is left out when its bytes are no UTF-8
RECURSIVE node_to_astNoneOnError(_, _)
node_to_astNoneOnError(node, source) ==
  LET bytes == SubSeq(source, node.start_byte + 1, node.end_byte)
  IN [node_type |-> node.kind,
      start_line |-> node.start_position.row,
      end_line |-> node.end_position.row,
      start_column |-> node.start_position.column,
      end_column |-> node.end_position.column,
      text |-> IF Len(node.children) = 0 /\ Utf8Valid(bytes)
                 THEN SomeText(bytes) ELSE NoText,
      children |-> [i \in 1..Len(node.children) |->
                      node_to_astNoneOnError(node.children[i], source)]]

\* node.child(i) is Some for every i below node.child_count(), so the
\* filter_map keeps every child
RECURSIVE node_to_ast(_, _)
node_to_ast(node, source) ==
  LET child_count == Len(node.children)
      text == IF child_count = 0
                THEN SomeText(Utf8TextOrEmpty(node, source))
                ELSE NoText
      children == [i \in 1..child_count |->
                     node_to_ast(node.children[i], source)]
  IN [node_type |-> node.kind,
      start_line |-> node.start_position.row,
      end_line |-> node.end_position.row,
      start_column |-> node.start_position.column,
      end_column |-> node.end_position.column,
      text |-> text,
      children |-> children]

\* The arguments: the trees of up to MaxDepth levels below the root and
\* up to MaxChildren children a node, over a few sources; the children of
\* a node are in source order and do not intersect, a leaf has a byte at
\* least, and a byte range may end inside a character.
LF == 10
Sources == {<<97, LF, 98>>, <<195, 169, 97>>, <<226, 130, 172>>}
LeafKinds == {"identifier", "ERROR"}
InnerKinds == {"program"}

\* tree-sitter's Point of a byte offset: the row is the number of line
\* feeds before it, the column the bytes after the last of them
PointAt(source, byte) ==
  LET feeds == {k \in 1..byte : source[k] = LF}
      lastFeed == IF feeds = {} THEN 0
                  ELSE CHOOSE k \in feeds : \A m \in feeds : m <= k
  IN [row |-> Cardinality(feeds), column |-> byte - lastFeed]

LeafNode(kind, s, e, source) ==
  [kind |-> kind, start_byte |-> s, end_byte |-> e,
   start_position |-> PointAt(source, s), end_position |-> PointAt(source, e),
   children |-> << >>]

InnerNode(kind, children) ==
  [kind |-> kind,
   start_byte |-> children[1].start_byte,
   end_byte |-> children[Len(children)].end_byte,
   start_position |-> children[1].start_position,
   end_position |-> children[Len(children)].end_position,
   children |-> children]

\* the lists of up to n nodes out of below, each node after the one before
RECURSIVE ChildLists(_, _)
ChildLists(below, n) ==
  IF n = 0 THEN {<< >>}
  ELSE LET shorter == ChildLists(below, n - 1)
           longest == {l \in shorter : Len(l) = n - 1}
           After(l, node) ==
             l = << >> \/ l[Len(l)].end_byte <= node.start_byte
       IN shorter \cup
            {Append(p[1], p[2]) : p \in {p \in longest \X below : After(p[1], p[2])}}

RECURSIVE NativeTrees(_, _)
NativeTrees(source, depth) ==
  IF depth = 0
    THEN {LeafNode(kind, r[1], r[2], source) :
            kind \in LeafKinds,
            r \in {r \in (0..Len(source)) \X (0..Len(source)) : r[1] < r[2]}}
    ELSE LET below == NativeTrees(source, depth - 1)
             lists == ChildLists(below, MaxChildren) \ {<< >>}
         IN below \cup {InnerNode(kind, children) :
                          kind \in InnerKinds, children \in lists}

AstIn == [root |-> LeafNode("identifier", 0, 0, << >>), source |-> << >>]
NoAst == [node_type |-> "", start_line |-> 0, end_line |-> 0,
          start_column |-> 0, end_column |-> 0, text |-> NoText,
          children |-> << >>]
AstIdle == aIn = AstIn /\ aPc = "idle" /\ aOut = NoAst

NodeToAst ==
  /\ aPc = "call"
  /\ aPc' = "done"
  /\ aOut' = node_to_ast(aIn.root, aIn.source)
  /\ UNCHANGED <<aIn, cacheVars, dupVars, hashVars, semVars, textVars>>

(***************************************************************************)
(* hash.rs.  A text is a string over HashAlphabet; an Xxh3 hasher is the   *)
(* bytes it was fed; a u64 or u128 digest is written with all its hex      *)
(* digits (16 or 32), the leading zeros included.                          *)
(***************************************************************************)
MaxData == 3
MaxParts == 2
MaxUpdates == 2

HashAlphabet == {"a", "b", "u"}

\* XXH3 with the default seed, as xxhash-rust computes it: the text, its
\* 64-bit digest and its 128-bit digest (high half first)
Xxh3Digests ==
  {<<"", "2d06800538d394c2", "99aa06d3014798d86001c324468d497f">>,
   <<"a", "e6c632b61e964e1f", "a96faf705af16834e6c632b61e964e1f">>,
   <<"b", "575a0b1c44d8843f", "4b2212e31ac97fd4575a0b1c44d8843f">>,
   <<"u", "0de0f3cef1e76922", "5e33aa40b898f6f90de0f3cef1e76922">>,
   <<"aa", "369242a646a19333", "b9fe94d346d39b20369242a646a19333">>,
   <<"ab", "a873719c24d5735c", "89c65ebc828eebaca873719c24d5735c">>,
   <<"au", "a5d32cef26f8e6ec", "21f31b221daa52d8a5d32cef26f8e6ec">>,
   <<"ba", "a7f09059a74517b4", "b26fcc573c3d06baa7f09059a74517b4">>,
   <<"bb", "b776d5cb968aa5a4", "db1de4b3da6c7871b776d5cb968aa5a4">>,
   <<"bu", "ad99fd7c78c9e18c", "281a494d6c01e0b9ad99fd7c78c9e18c">>,
   <<"ua", "e6a8fe39d9702a54", "083e8c7841e26af5e6a8fe39d9702a54">>,
   <<"ub", "3b3b983015e50748", "abb93f336b6f1e913b3b983015e50748">>,
   <<"uu", "a0ff647f8f5b1f0f", "73cde16174c581f5a0ff647f8f5b1f0f">>,
   <<"aaa", "e4ba3228795dc9ef", "1ba4b00492c7202ee4ba3228795dc9ef">>,
   <<"aab", "f18b2325647af70a", "899bb8fab5e88248f18b2325647af70a">>,
   <<"aau", "97047b6c19095174", "e60cac3177e891a997047b6c19095174">>,
   <<"aba", "b744fb969684eac7", "3fd52765abfc9dc6b744fb969684eac7">>,
   <<"abb", "291c3db09146c9c9", "74fd80632970f948291c3db09146c9c9">>,
   <<"abu", "d4332eb74303faa5", "5a49a71fe77a940ed4332eb74303faa5">>,
   <<"aua", "34f5d7d973ceb1b0", "f84d499cf22eca7334f5d7d973ceb1b0">>,
   <<"aub", "99d314106d849561", "772c6e50eabc566799d314106d849561">>,
   <<"auu", "89511ddc3d6d9a16", "dc9602a8ef63f8f589511ddc3d6d9a16">>,
   <<"baa", "8913c77cbd0c9548", "632d9a1f3149f0bb8913c77cbd0c9548">>,
   <<"bab", "3a1d3cf32187b81d", "f7988088cc9079a43a1d3cf32187b81d">>,
   <<"bau", "b6c17515f3e7d9fc", "8757da4bb9e61781b6c17515f3e7d9fc">>,
   <<"bba", "5f9f80b776136779", "32daa2a8338edbb55f9f80b776136779">>,
   <<"bbb", "be168a8b4d34d73a", "a6dc9c19efe4abbcbe168a8b4d34d73a">>,
   <<"bbu", "c6117f97f5f2e994", "8a3b7adaae514999c6117f97f5f2e994">>,
   <<"bua", "245efc5ec18fa038", "2273b8e903d103b0245efc5ec18fa038">>,
   <<"bub", "a49f0d601c8b4069", "5a7ed320814c3adea49f0d601c8b4069">>,
   <<"buu", "abbff0e73989fa7c", "b804031d95c2f092abbff0e73989fa7c">>,
   <<"uaa", "af1ee9eac509995e", "1b2e8ef2a0f8e4b6af1ee9eac509995e">>,
   <<"uab", "d181bcc83bab28af", "13b005800078a28cd181bcc83bab28af">>,
   <<"uau", "d7a574cbb211d7a2", "812eacdad83828b0d7a574cbb211d7a2">>,
   <<"uba", "1ed066bb344a9612", "4eeb843c52f33c811ed066bb344a9612">>,
   <<"ubb", "f6915ba41ffdea95", "f6e49168c2d494edf6915ba41ffdea95">>,
   <<"ubu", "03f55a7641bd48fc", "587fc809c03061ea03f55a7641bd48fc">>,
   <<"uua", "20f1591d3a00105c", "6a65acf688fa128f20f1591d3a00105c">>,
   <<"uub", "b177b6a36ab6b42a", "357a6f0ccd3f268db177b6a36ab6b42a">>,
   <<"uuu", "58b26b1bde3eec39", "d33fbacaa52900e558b26b1bde3eec39">>,
   <<"aaaa", "4b134ec1c5393727", "dff6d5c2c4dd89f6222af96e64a46941">>,
   <<"aaab", "3ccc80ab4d35c923", "c6651d285011bed3442e212d55f6e6be">>,
   <<"aaau", "08a729b6aa0ffaa7", "138bd40e63c4da241a5dc5e4af06a18a">>,
   <<"aaba", "6a253e37d8a379cf", "743efacd15e434fd71a308c41e38be4f">>,
   <<"aabb", "67c96edaf9ea5903", "361b2daa13afc519a998d19c146aa4de">>,
   <<"aabu", "4423ad3102e49279", "e8c2af46e5e64d6da50ee1038eef4e19">>,
   <<"aaua", "246409e924d99f8a", "8da9d89f5cd2b2cd6980792e9e84a75f">>,
   <<"aaub", "3622ae36fead907b", "18290be314af7a8251118edffb713787">>,
   <<"aauu", "6c864401c14dc655", "931b840658f72e96947af6746237d65f">>,
   <<"abaa", "85c9ec2b6a0e270e", "eed37ff581cb412c317b60238630a196">>,
   <<"abab", "a4c67586c62f5e7f", "d0765f50f92c3d27ae45cbadf22bbfde">>,
   <<"abau", "6e99fafec4b60faf", "0fe9acc95a4e7f8ee04f263350a526a5">>,
   <<"abba", "a43e1ee3a6d274dc", "3aff44eb2dd679dda84d0157f00ef507">>,
   <<"abbb", "369a238820104b8a", "45ef523686f84b019e970c9608365b08">>,
   <<"abbu", "6771f619c3fa527a", "91fc211594ec987273807a92f3a3e5d4">>,
   <<"abua", "21025d4a0172c27d", "da12ebbf00bab2f8b972c0012123394d">>,
   <<"abub", "aead5ed024eb05cc", "cd80226eedc64a53bc7f862c884abe96">>,
   <<"abuu", "86dbee84a3ddeed1", "26bb7ad630fbb26b20fed19e500adf8e">>,
   <<"auaa", "f77af6e280e55c99", "bfa2ac59a785e7de50112735c3cd6dd7">>,
   <<"auab", "3d26d5af83c4128a", "8f2ba13a3f6d85f38eafb3aba5842fcf">>,
   <<"auau", "d3594e6aafeaf6e2", "6591b6adb239db75928bde10132a460a">>,
   <<"auba", "a3fa7c173b8c0e09", "edbb67ec0bc1b24bfe38f77b7be73c42">>,
   <<"aubb", "f95c653efba87089", "800a1a8426bcc209fd46c08424c5e32a">>,
   <<"aubu", "d19a42c3143f5122", "0dd0312242f6b19f849c079903cc3267">>,
   <<"auua", "b775bedfcbf84790", "032a3e9902335d201296543cda246b20">>,
   <<"auub", "21cf97f1987006d9", "d21304d4cb5482f712d86138d9ef3eec">>,
   <<"auuu", "fb153e7ba9a5dc36", "5eaa5e5e4e0ca8fcdde25327960f6b4d">>,
   <<"baaa", "ab869e24e13cd0ee", "b14950a4e57035acba700e01a13d0e67">>,
   <<"baab", "99d695f4c7df14bc", "bb962d2dab61e2eb19359987db613a8d">>,
   <<"baau", "4d74c6552644e05c", "d2b9ae0b4024f62dbec7b9cef551c309">>,
   <<"baba", "0fdf350a85d2d477", "2b08c525f3033b4969c1171366847cc8">>,
   <<"babb", "f9a105783513ab2f", "01f2d634668509d215132a59f90b76a9">>,
   <<"babu", "f300a7acecd3128a", "aeec6bdf6f0b36295590989a3e6065fc">>,
   <<"baua", "9e5032d17e60e0ce", "9bbf33f911626a2f36b504b120c11e9d">>,
   <<"baub", "2988a5c2017db996", "8975b2683e317904d4d58f05c896d587">>,
   <<"bauu", "f90faebe0e9ad11f", "3ea86e7903e8dee546f3408a81b76b96">>,
   <<"bbaa", "6a1e7f20dc64b318", "9dbe477f53cb39db65041043ad6b9764">>,
   <<"bbab", "13c5b34f7252ab65", "df895c8fd076b6e49b4234af74458cd3">>,
   <<"bbau", "24ecef3024622041", "e40bff7b723b5c788dd23ebe83a87e01">>,
   <<"bbba", "a406fc69a3f4ecfc", "9517367b8a74f3509235c033c94a9532">>,
   <<"bbbb", "b3f3a135ee58640f", "f0ac511cb88bc3af134ab35f08fbace9">>,
   <<"bbbu", "6208e9ad119ee8e9", "ab2fa3ce613ae91562ec5f2cb5ca1dc9">>,
   <<"bbua", "b3d9f82e237d4dc2", "2b7c330754162405f5e029c394328318">>,
   <<"bbub", "bd482dc0491e6a22", "d139a514069413156af0719030391a69">>,
   <<"bbuu", "7111a5cb98f2e51c", "876a438ba4eaf9723e951180a3cccc29">>,
   <<"buaa", "d11854d7b9076bf7", "d0c272586524a7d2e615dfff32fa18aa">>,
   <<"buab", "3bf5b6f20ed1f9ae", "c65c46810d4c264498576a15dbf8d086">>,
   <<"buau", "964778905d7e4fb6", "b438fed4d2298541e9ba595a50de98e9">>,
   <<"buba", "f28cf119a2a0f776", "a13f908ce69f78e6d36f47d6b2d3434d">>,
   <<"bubb", "86c0931da9800448", "1fd229b0dbf59cb9bb33c56b99454c29">>,
   <<"bubu", "3387115a90b2a43c", "2927c4d7b83390c684a93c32f538e802">>,
   <<"buua", "80c8b9152f564947", "6682d9fa6aab1ce630971ce5818e7433">>,
   <<"buub", "7ffaf2a20971a7e4", "c805558182b4526ef9efe3358595027e">>,
   <<"buuu", "a4aee9fa5e1e7e8e", "8d7143e9b1e9133669fb1f95cc5c378c">>,
   <<"uaaa", "187a26508694573b", "a7a5d1608a4d9fc37273ddb5ea5508b6">>,
   <<"uaab", "a62dab3e64b23216", "6341ee998c47aa75f017206d597c35bd">>,
   <<"uaau", "3c9ad5b3e88300a5", "67737d140a8a7aff9345d67be3990f4c">>,
   <<"uaba", "ea41c7ec98b8b3d4", "6465674a7e292909a74e85f1bf735c3d">>,
   <<"uabb", "cb952dbc021300a5", "cb635d5ef296e61ef2d96fc3f3a108b8">>,
   <<"uabu", "6b04d1e5c1cc17c1", "78ddedd4be745cece7ee0011d9ad0f75">>,
   <<"uaua", "c0c527fff5a7bc33", "b0a4f8326496b9c7fe94454a70326ae0">>,
   <<"uaub", "938c46a626a43d94", "ed7f529cebdcf9dafbbb79f3be94037b">>,
   <<"uauu", "a49c3b46f405253c", "5eabd39a2f06d29b5afb60e1045e79ea">>,
   <<"ubaa", "729cc410868f0ab0", "f04a754f5f8c3f01fbac7dd8f76fd8a6">>,
   <<"ubab", "322985c0636647a5", "122aeb1f5580aacfa2a8e15699e62865">>,
   <<"ubau", "9dca9e99656973a5", "c5ae47470db5fa9fe7cec374a9d33b51">>,
   <<"ubba", "210c00339727b0ff", "b28dfe53f69b27fd70db86493faa5e02">>,
   <<"ubbb", "10ff2a8cde1719e1", "dbafe4a8789bfffcf3671a44e055c82e">>,
   <<"ubbu", "6955aa1c306f64c9", "15805e181a7b3dfcd1071551fec773eb">>,
   <<"ubua", "1d5386377c8d755c", "53b60c52d1869032f74e416a9b175d27">>,
   <<"ubub", "658460524430b173", "81dd382455e225ce9389b20a6b57e1f0">>,
   <<"ubuu", "11177cf31b73952e", "cb0fb51be458c6f998e1708d3a615d44">>,
   <<"uuaa", "45b993d371d3268b", "55a2241bf31f562fac85fefb2f7c2808">>,
   <<"uuab", "e24e65becf4671b4", "0afd2177e9f2b85d92a006d710309669">>,
   <<"uuau", "fd402dabd797fb48", "eddca11c6db4230565208bcf62f0f583">>,
   <<"uuba", "42a72679f9988d79", "af971ab1aa984009987234f83731e5e6">>,
   <<"uubb", "0b4161ef07047d39", "0a68ca5a282fcb4845377f0a31e920d2">>,
   <<"uubu", "1b5a14fe517141de", "d39f16ab9481ccf1fe8c54149b7b80be">>,
   <<"uuua", "af256be59e85904f", "2500c7716c10b64bd6006593305eeb43">>,
   <<"uuub", "303f12dc4754c010", "4838e3a25a6b3172affca6da0c22a695">>,
   <<"uuuu", "54af8aa81da76f24", "8a5a475e8c6732cd081c428e752e7064">>}

\* Xxh3::new(), Xxh3::update, Xxh3::digest, Xxh3::digest128
Xxh3New == ""
\* a variant in which an update forgets what was fed before
Xxh3UpdateReplacing(hasher, bytes) == bytes

Xxh3Update(hasher, bytes) == hasher \o bytes
Xxh3Digest(hasher) == (CHOOSE row \in Xxh3Digests : row[1] = hasher)[2]
Xxh3Digest128(hasher) == (CHOOSE row \in Xxh3Digests : row[1] = hasher)[3]

\* format!("{:x}", v): the hex digits of v from its first digit that is
\* not zero, "0" for zero
LowerHex(digits) ==
  LET nonzero == {k \in 1..Len(digits) : SubSeq(digits, k, k) # "0"}
      first == CHOOSE k \in nonzero : \A m \in nonzero : k <= m
  IN IF nonzero = {} THEN "0" ELSE SubSeq(digits, first, Len(digits))

RECURSIVE Zeros(_)
Zeros(n) == IF n <= 0 THEN "" ELSE "0" \o Zeros(n - 1)

\* format!("{:032x}", v): {:x}, filled with zeros on the left up to the width
Width128 == 32
LowerHexPadded(digits, width) ==
  LET hex == LowerHex(digits)
  IN Zeros(width - Len(hex)) \o hex

hash_prompt(prompt) ==
  LowerHex(Xxh3Digest(Xxh3Update(Xxh3New, prompt)))

\* a variant that feeds the parts from the last to the first
RECURSIVE UpdateAllReversed(_, _)
UpdateAllReversed(hasher, parts) ==
  IF parts = << >> THEN hasher
  ELSE UpdateAllReversed(Xxh3Update(hasher, parts[Len(parts)]),
                         SubSeq(parts, 1, Len(parts) - 1))

\* the hasher after the loop over parts
RECURSIVE UpdateAll(_, _)
UpdateAll(hasher, parts) ==
  IF parts = << >> THEN hasher
  ELSE UpdateAll(Xxh3Update(hasher, Head(parts)), Tail(parts))

hash_composite(parts) ==
  LowerHex(Xxh3Digest(UpdateAll(Xxh3New, parts)))

hash_prompt_128(prompt) ==
  LowerHexPadded(Xxh3Digest128(Xxh3Update(Xxh3New, prompt)), Width128)

\* StreamingHasher::digest and ::digest128 on the hasher field
StreamingDigest(hasher) == LowerHex(Xxh3Digest(hasher))
StreamingDigest128(hasher) == LowerHexPadded(Xxh3Digest128(hasher), Width128)

\* the texts of up to n characters
RECURSIVE Texts(_)
Texts(n) ==
  IF n = 0 THEN {""}
  ELSE LET shorter == Texts(n - 1)
       IN shorter \cup {t \o c : t \in shorter, c \in HashAlphabet}

RECURSIVE TotalLen(_)
TotalLen(parts) ==
  IF parts = << >> THEN 0 ELSE Len(Head(parts)) + TotalLen(Tail(parts))

\* the part lists of up to MaxParts parts and MaxData characters in all
PartLists ==
  {parts \in UNION {[1..n -> Texts(MaxData)] : n \in 0..MaxParts} :
     TotalLen(parts) <= MaxData}

NoHashOut == [fn |-> "", arg |-> << >>, ret |-> ""]
NoneFed == [data |-> "", updates |-> 0]
HashIdle == hData = Xxh3New /\ hFed = NoneFed /\ hOut = NoHashOut

HashPrompt(prompt) ==
  /\ hOut' = [fn |-> "hash_prompt", arg |-> <<prompt>>, ret |-> hash_prompt(prompt)]
  /\ UNCHANGED <<hData, hFed, cacheVars, dupVars, astVars, semVars, textVars>>

HashComposite(parts) ==
  /\ hOut' = [fn |-> "hash_composite", arg |-> parts, ret |-> hash_composite(parts)]
  /\ UNCHANGED <<hData, hFed, cacheVars, dupVars, astVars, semVars, textVars>>

HashPrompt128(prompt) ==
  /\ hOut' = [fn |-> "hash_prompt_128", arg |-> <<prompt>>,
              ret |-> hash_prompt_128(prompt)]
  /\ UNCHANGED <<hData, hFed, cacheVars, dupVars, astVars, semVars, textVars>>

\* the calls on one StreamingHasher; it is fed up to MaxData characters in
\* up to MaxUpdates calls between two resets
StreamingUpdate(data) ==
  /\ Len(hFed.data) + Len(data) <= MaxData
  /\ hFed.updates < MaxUpdates
  /\ hData' = Xxh3Update(hData, data)
  /\ hFed' = [data |-> hFed.data \o data, updates |-> hFed.updates + 1]
  /\ hOut' = [fn |-> "update", arg |-> <<data>>, ret |-> ""]
  /\ UNCHANGED <<cacheVars, dupVars, astVars, semVars, textVars>>

StreamingDigestCall ==
  /\ hOut' = [fn |-> "digest", arg |-> << >>, ret |-> StreamingDigest(hData)]
  /\ UNCHANGED <<hData, hFed, cacheVars, dupVars, astVars, semVars, textVars>>

StreamingDigest128Call ==
  /\ hOut' = [fn |-> "digest128", arg |-> << >>, ret |-> StreamingDigest128(hData)]
  /\ UNCHANGED <<hData, hFed, cacheVars, dupVars, astVars, semVars, textVars>>

StreamingReset ==
  /\ hData' = Xxh3New
  /\ hFed' = NoneFed
  /\ hOut' = [fn |-> "reset", arg |-> << >>, ret |-> ""]
  /\ UNCHANGED <<cacheVars, dupVars, astVars, semVars, textVars>>

(***************************************************************************)
(* semantic_analyzer.rs.  A text is a sequence of one-char strings, an     *)
(* offset counts the characters before a place (the texts are ASCII, so    *)
(* characters are bytes).  A regex is the tree of its pattern; a match is  *)
(* found as the regex crate defines it: at the leftmost place, the first   *)
(* alternative and the longest repetition the rest of the pattern allows.  *)
(***************************************************************************)
Chars(s) == [i \in 1..Len(s) |-> SubSeq(s, i, i)]

\* \s and \w on ASCII
SpaceChars == {" ", "\t", "\n", "\r", "\f"}
WordChars ==
  Range(Chars("abcdefghijklmnopqrstuvwxyzABCDEFGHIJKLMNOPQRSTUVWXYZ0123456789_"))
QuoteChars == {"'", "\""}

\* the nodes of a pattern: a literal, a character class taken min times or
\* more (many) or at most once, a sequence, an alternation, an optional
\* part, a capture group
Lit(s) == [t |-> "lit", s |-> Chars(s)]
Cls(set, neg, min, many) ==
  [t |-> "cls", set |-> set, neg |-> neg, min |-> min, many |-> many]
Cat(xs) == [t |-> "cat", xs |-> xs]
Alt(xs) == [t |-> "alt", xs |-> xs]
Opt(x) == [t |-> "opt", x |-> x]
Grp(i, x) == [t |-> "grp", i |-> i, x |-> x]
GrpEnd(i, start) == [t |-> "end", i |-> i, start |-> start]

Spaces1 == Cls(SpaceChars, FALSE, 1, TRUE)
Spaces0 == Cls(SpaceChars, FALSE, 0, TRUE)
Word1 == Cls(WordChars, FALSE, 1, TRUE)
Not1(set) == Cls(set, TRUE, 1, TRUE)
Not0(set) == Cls(set, TRUE, 0, TRUE)
Quote == Cls(QuoteChars, FALSE, 1, FALSE)
ConstLetVar == Alt(<<Lit("const"), Lit("let"), Lit("var")>>)

\* import\s+(?:(?:\{([^}]+)\})|(?:(\w+))|\*\s+as\s+(\w+))\s+from\s+['"]([^'"]+)['"]
ts_import ==
  Cat(<<Lit("import"), Spaces1,
        Alt(<<Cat(<<Lit("{"), Grp(1, Not1({"}"})), Lit("}")>>),
              Grp(2, Word1),
              Cat(<<Lit("*"), Spaces1, Lit("as"), Spaces1, Grp(3, Word1)>>)>>),
        Spaces1, Lit("from"), Spaces1,
        Quote, Grp(4, Not1(QuoteChars)), Quote>>)

\* (?:const|let|var)\s+(?:\{([^}]+)\}|(\w+))\s*=\s*require\(['"]([^'"]+)['"]\)
ts_require ==
  Cat(<<ConstLetVar, Spaces1,
        Alt(<<Cat(<<Lit("{"), Grp(1, Not1({"}"})), Lit("}")>>),
              Grp(2, Word1)>>),
        Spaces0, Lit("="), Spaces0, Lit("require("),
        Quote, Grp(3, Not1(QuoteChars)), Quote, Lit(")")>>)

\* (?:async\s+)?function\s+(\w+)\s*\(([^)]*)\)(?:\s*:\s*([^{]+))?
ts_function ==
  Cat(<<Opt(Cat(<<Lit("async"), Spaces1>>)), Lit("function"), Spaces1,
        Grp(1, Word1), Spaces0, Lit("("), Grp(2, Not0({")"})), Lit(")"),
        Opt(Cat(<<Spaces0, Lit(":"), Spaces0, Grp(3, Not1({"{"}))>>))>>)

\* (?:const|let|var)\s+(\w+)\s*=\s*(?:async\s+)?\(([^)]*)\)(?:\s*:\s*([^=]+))?\s*=>
ts_arrow ==
  Cat(<<ConstLetVar, Spaces1, Grp(1, Word1), Spaces0, Lit("="), Spaces0,
        Opt(Cat(<<Lit("async"), Spaces1>>)),
        Lit("("), Grp(2, Not0({")"})), Lit(")"),
        Opt(Cat(<<Spaces0, Lit(":"), Spaces0, Grp(3, Not1({"="}))>>)),
        Spaces0, Lit("=>")>>)

\* @(\w+)\s*(?:\(([^)]*)\))?
ts_decorator ==
  Cat(<<Lit("@"), Grp(1, Word1), Spaces0,
        Opt(Cat(<<Lit("("), Grp(2, Not0({")"})), Lit(")")>>))>>)

\* Captures: each group is the range it matched, or it took no part
MaxGroups == 4
NoGroup == [some |-> FALSE, start |-> 0, end |-> 0]
NoMatch == [ok |-> FALSE, end |-> 0, caps |-> [i \in 1..MaxGroups |-> NoGroup]]

\* the match of the nodes cont, one after the other, that starts at the
\* offset pos, the groups closed so far being caps
RECURSIVE MatchAt(_, _, _, _)
MatchAt(cont, text, pos, caps) ==
  IF cont = << >> THEN [ok |-> TRUE, end |-> pos, caps |-> caps]
  ELSE
    LET node == Head(cont)
        rest == Tail(cont)
    IN CASE node.t = "lit" ->
              IF /\ pos + Len(node.s) <= Len(text)
                 /\ SubSeq(text, pos + 1, pos + Len(node.s)) = node.s
                THEN MatchAt(rest, text, pos + Len(node.s), caps)
                ELSE NoMatch
         [] node.t = "cls" ->
              LET In(c) == (c \in node.set) # node.neg
                  others == {j \in 1..(Len(text) - pos) : ~In(text[pos + j])}
                  run == IF others = {} THEN Len(text) - pos
                         ELSE (CHOOSE j \in others : \A m \in others : j <= m) - 1
                  most == IF node.many THEN run ELSE Min(run, 1)
                  \* the longest first
                  tries == [k \in 1..(most - node.min + 1) |->
                              MatchAt(rest, text, pos + most - k + 1, caps)]
                  good == SelectSeq(tries, LAMBDA r : r.ok)
              IN IF good = << >> THEN NoMatch ELSE good[1]
         [] node.t = "cat" -> MatchAt(node.xs \o rest, text, pos, caps)
         [] node.t = "alt" ->
              LET tries == [k \in 1..Len(node.xs) |->
                              MatchAt(<<node.xs[k]>> \o rest, text, pos, caps)]
                  good == SelectSeq(tries, LAMBDA r : r.ok)
              IN IF good = << >> THEN NoMatch ELSE good[1]
         [] node.t = "opt" ->
              LET taken == MatchAt(<<node.x>> \o rest, text, pos, caps)
              IN IF taken.ok THEN taken ELSE MatchAt(rest, text, pos, caps)
         [] node.t = "grp" ->
              MatchAt(<<node.x, GrpEnd(node.i, pos)>> \o rest, text, pos, caps)
         [] node.t = "end" ->
              MatchAt(rest, text, pos,
                      [caps EXCEPT ![node.i] =
                         [some |-> TRUE, start |-> node.start, end |-> pos]])

\* Regex::captures_iter: the matches from the offset from on, each the
\* leftmost one that starts at or after the end of the one before
RECURSIVE CapturesFrom(_, _, _)
CapturesFrom(re, text, from) ==
  LET At(s) == MatchAt(<<re>>, text, s, NoMatch.caps)
      starts == {s \in from..Len(text) : At(s).ok}
      start == CHOOSE s \in starts : \A m \in starts : s <= m
      found == At(start)
  IN IF starts = {} THEN << >>
     ELSE <<[start |-> start, end |-> found.end, caps |-> found.caps]>>
            \o CapturesFrom(re, text,
                            IF found.end = start THEN start + 1 ELSE found.end)

captures_iter(re, text) == CapturesFrom(re, text, 0)

\* caps.get(i).map(|m| m.as_str()): Some(text of the group) or None
GroupText(text, m, i) ==
  IF m.caps[i].some
    THEN SomeText(SubSeq(text, m.caps[i].start + 1, m.caps[i].end))
    ELSE NoText

\* caps.get(0).unwrap().as_str()
FullMatch(text, m) == SubSeq(text, m.start + 1, m.end)

\* LineIndex::new: the offsets at which the lines start
LineIndexNew(code) ==
  <<0>> \o SelectSeq([i \in 1..Len(code) |-> i], LAMBDA i : code[i] = NL)

\* LineIndex::get_line: binary_search gives Ok(index of the offset) or
\* Err(index it would be inserted at); lines count from 0
get_line(offsets, offset) ==
  LET at == {k \in 1..Len(offsets) : offsets[k] = offset}
      below == {k \in 1..Len(offsets) : offsets[k] < offset}
  IN IF at # {} THEN (CHOOSE k \in at : TRUE) - 1
     ELSE Cardinality(below) - 1

\* str::trim
Trim(t) ==
  LET kept == {k \in 1..Len(t) : t[k] \notin SpaceChars}
      first == CHOOSE k \in kept : \A m \in kept : k <= m
      last_ == CHOOSE k \in kept : \A m \in kept : m <= k
  IN IF kept = {} THEN << >> ELSE SubSeq(t, first, last_)

\* named.split(',').map(|s| s.trim().to_string()).collect()
SplitTrim(named) ==
  LET pieces == Split(named, {","})
  IN [k \in 1..Len(pieces) |-> Trim(pieces[k])]

TsLanguages == {"typescript", "typescriptreact", "javascript", "javascriptreact"}

\* Option<&str> of a group as a String, "" for None (unwrap_or_default)
TextOrDefault(option) == IF option.some THEN option.value ELSE << >>

\* the ImportInfo of a match of ts_import
TsImportInfo(code, offsets, m) ==
  LET line_num == get_line(offsets, m.start)
      named == GroupText(code, m, 1)
      default == GroupText(code, m, 2)
      namespace == GroupText(code, m, 3)
      module == TextOrDefault(GroupText(code, m, 4))
      import_list == IF named.some THEN SplitTrim(named.value)
                     ELSE IF default.some THEN <<default.value>>
                     ELSE IF namespace.some THEN <<namespace.value>>
                     ELSE << >>
  IN [module |-> module, imports |-> import_list, line_number |-> line_num,
      is_default |-> default.some, is_namespace |-> namespace.some]

\* the ImportInfo of a match of ts_require
TsRequireInfo(code, offsets, m) ==
  LET line_num == get_line(offsets, m.start)
      named == GroupText(code, m, 1)
      default == GroupText(code, m, 2)
      module == TextOrDefault(GroupText(code, m, 3))
      import_list == IF named.some THEN SplitTrim(named.value)
                     ELSE IF default.some THEN <<default.value>>
                     ELSE << >>
  IN [module |-> module, imports |-> import_list, line_number |-> line_num,
      is_default |-> default.some, is_namespace |-> FALSE]

\* the imports vector after the loop over the import matches and the loop
\* over the require matches
extract_ts_imports(code) ==
  LET line_index == LineIndexNew(code)
      import_caps == captures_iter(ts_import, code)
      require_caps == captures_iter(ts_require, code)
  IN [k \in 1..Len(import_caps) |-> TsImportInfo(code, line_index, import_caps[k])]
       \o [k \in 1..Len(require_caps) |->
             TsRequireInfo(code, line_index, require_caps[k])]

\* the language ids other than "python" (its patterns are not part of
\* this model, and no call is made with it)
process_imports(code, language_id) ==
  CASE language_id \in TsLanguages -> extract_ts_imports(code)
    [] language_id \notin TsLanguages \cup {"python"} -> << >>

\* str::find('=') : the offset of the first "=", or none
FindChar(t, c) ==
  LET at == {k \in 1..Len(t) : t[k] = c}
  IN IF at = {} THEN 0 ELSE CHOOSE k \in at : \A m \in at : k <= m

\* str::trim_end_matches('?')
TrimEndQuestion(t) ==
  LET kept == {k \in 1..Len(t) : t[k] # "?"}
  IN IF kept = {} THEN << >>
     ELSE SubSeq(t, 1, CHOOSE k \in kept : \A m \in kept : m <= k)

ParameterInfo(piece) ==
  LET param == Trim(piece)
      parts == Split(param, {":"})
      name_part == Trim(parts[1])
      eq_pos == FindChar(name_part, "=")
      name == IF eq_pos > 0 THEN Trim(SubSeq(name_part, 1, eq_pos - 1))
              ELSE name_part
      default_value ==
        IF eq_pos > 0
          THEN SomeText(Trim(SubSeq(name_part, eq_pos + 1, Len(name_part))))
          ELSE NoText
      param_type == IF Len(parts) >= 2 THEN SomeText(Trim(parts[2])) ELSE NoText
      is_optional == name # << >> /\ name[Len(name)] = "?"
  IN [name |-> TrimEndQuestion(name), param_type |-> param_type,
      default_value |-> default_value, is_optional |-> is_optional]

parse_parameters(params_str) ==
  LET pieces == SelectSeq(Split(params_str, {","}), LAMBDA s : Trim(s) # << >>)
  IN [k \in 1..Len(pieces) |-> ParameterInfo(pieces[k])]

\* Option<&str>::map(|m| m.trim().to_string())
TrimOption(option) ==
  IF option.some THEN SomeText(Trim(option.value)) ELSE NoText

\* the FunctionInfo of a match of ts_function (generator) or ts_arrow
TsFunctionInfo(code, offsets, m, generator) ==
  LET line_num == get_line(offsets, m.start)
      full_match == FullMatch(code, m)
      name == TextOrDefault(GroupText(code, m, 1))
      params_str == TextOrDefault(GroupText(code, m, 2))
      return_type == TrimOption(GroupText(code, m, 3))
      parameters == parse_parameters(params_str)
  IN [name |-> name, parameters |-> parameters, return_type |-> return_type,
      line_number |-> line_num,
      is_async |-> Find(full_match, Chars("async")),
      is_generator |-> generator /\ Find(full_match, Chars("function*"))]

extract_ts_functions(code) ==
  LET line_index == LineIndexNew(code)
      func_caps == captures_iter(ts_function, code)
      arrow_caps == captures_iter(ts_arrow, code)
  IN [k \in 1..Len(func_caps) |->
        TsFunctionInfo(code, line_index, func_caps[k], TRUE)]
       \o [k \in 1..Len(arrow_caps) |->
             TsFunctionInfo(code, line_index, arrow_caps[k], FALSE)]

process_functions(code, language_id) ==
  CASE language_id \in TsLanguages -> extract_ts_functions(code)
    [] language_id \notin TsLanguages \cup {"python"} -> << >>

\* the languages process_decorators has a pattern for
DecoratorLanguages == TsLanguages \cup {"python", "cpp", "c", "java"}

TsDecoratorInfo(code, offsets, m) ==
  [name |-> TextOrDefault(GroupText(code, m, 1)),
   arguments |-> GroupText(code, m, 2),
   line_number |-> get_line(offsets, m.start),
   target |-> "unknown"]

process_decorators(code, language_id) ==
  CASE language_id \in TsLanguages ->
         LET line_index == LineIndexNew(code)
             caps == captures_iter(ts_decorator, code)
         IN [k \in 1..Len(caps) |-> TsDecoratorInfo(code, line_index, caps[k])]
    [] language_id \notin DecoratorLanguages -> << >>

\* The arguments: codes of up to MaxStmts lines out of a few statements,
\* each with what it declares (kind "import", "require", "function",
\* "arrow", "decorator" or "other"; name: the module, function or
\* decorator; flag: declared async).
MaxStmts == 2

Stmt(text, kind, name, bindings, form, flag) ==
  [text |-> Chars(text), kind |-> kind, name |-> Chars(name),
   bindings |-> bindings, form |-> form, flag |-> flag]

Statements ==
  {Stmt("import { foo, bar } from 'm1';", "import", "m1",
        <<Chars("foo"), Chars("bar")>>, "named", FALSE),
   Stmt("import React from 'react';", "import", "react",
        <<Chars("React")>>, "default", FALSE),
   Stmt("import * as u from './u';", "import", "./u",
        <<Chars("u")>>, "namespace", FALSE),
   Stmt("import R, { s } from 'r';", "import", "r",
        <<Chars("R"), Chars("s")>>, "mixed", FALSE),
   Stmt("const fs = require('fs');", "require", "fs",
        <<Chars("fs")>>, "default", FALSE),
   Stmt("function hello(name: string): void {}", "function", "hello",
        << >>, "", FALSE),
   Stmt("async function load() {}", "function", "load", << >>, "", TRUE),
   Stmt("function asyncTask() {}", "function", "asyncTask", << >>, "", FALSE),
   Stmt("const greet = async (n) => {};", "arrow", "greet", << >>, "", TRUE),
   Stmt("const id = x => x;", "arrow", "id", << >>, "", FALSE),
   Stmt("@Component", "decorator", "Component", << >>, "", FALSE),
   Stmt("@Injectable()", "decorator", "Injectable", << >>, "", FALSE),
   Stmt("class A {}", "other", "", << >>, "", FALSE),
   Stmt("/** @param x */", "other", "", << >>, "", FALSE)}

SemLanguages == {"typescript", "javascriptreact", "rust"}

NoSemIn == [stmts |-> << >>, code |-> << >>, language_id |-> ""]
NoSemOut == [fn |-> "", ret |-> << >>]
SemIdle == sIn = NoSemIn /\ sOut = NoSemOut

ExtractImports ==
  /\ sOut' = [fn |-> "extract_imports",
              ret |-> process_imports(sIn.code, sIn.language_id)]
  /\ UNCHANGED <<sIn, cacheVars, dupVars, astVars, hashVars, textVars>>

ExtractFunctions ==
  /\ sOut' = [fn |-> "extract_functions",
              ret |-> process_functions(sIn.code, sIn.language_id)]
  /\ UNCHANGED <<sIn, cacheVars, dupVars, astVars, hashVars, textVars>>

ExtractDecorators ==
  /\ sOut' = [fn |-> "extract_decorators",
              ret |-> process_decorators(sIn.code, sIn.language_id)]
  /\ UNCHANGED <<sIn, cacheVars, dupVars, astVars, hashVars, textVars>>

(***************************************************************************)
(* tokenize_code and remove_comments (text_processor.rs).  A text is a     *)
(* sequence of characters.  EAcute stands for U+00E9, a letter of two      *)
(* UTF-8 bytes; every other character of the inputs is one byte.  Offsets  *)
(* count bytes from 0, as char_indices and str::find give them.            *)
(***************************************************************************)
MaxTokenCode == 4
MaxCommentCode == 6

EAcute == "U+00E9"

\* the characters that open a string literal (lines 85 and 200); Backtick
\* stands for U+0060
Backtick == "U+0060"
QuoteMarks == {"\"", "'", Backtick}

\* char::len_utf8
len_utf8(c) == IF c = EAcute THEN 2 ELSE 1

\* str::as_bytes
RECURSIVE Utf8Bytes(_)
Utf8Bytes(text) ==
  IF text = << >> THEN << >>
  ELSE (IF Head(text) = EAcute THEN <<"C3", "A9">> ELSE <<Head(text)>>)
         \o Utf8Bytes(Tail(text))

\* char_indices: the byte offset of the character with index k (from 1);
\* for k = Len(text) + 1 the length of the text in bytes
ByteIndex(text, k) == Len(Utf8Bytes(SubSeq(text, 1, k - 1)))

\* &code[from..to]
ByteSlice(text, from, to) ==
  SelectSeq([k \in 1..Len(text) |-> k],
            LAMBDA k : from <= ByteIndex(text, k) /\ ByteIndex(text, k) < to)

\* char::is_alphabetic, char::is_numeric and char::is_whitespace on the
\* characters of the inputs
Alphabetic == {"a", "f", "i", EAcute}
Numeric == {"1"}
is_alphabetic(c) == c \in Alphabetic
is_numeric(c) == c \in Numeric
is_whitespace(c) == c \in Whitespace

JsLikeLanguages ==
  {"typescript", "typescriptreact", "javascript", "javascriptreact"}

\* lines 45-49
keywords ==
  {Chars(w) : w \in
     {"function", "const", "let", "var", "class", "interface", "type",
      "import", "export", "from", "async", "await", "return", "if",
      "else", "for", "while", "switch", "case", "break", "continue"}}

NoTokens == [texts |-> << >>, token_types |-> << >>, starts |-> << >>,
             ends |-> << >>]

\* the four pushes of one token
PushToken(result, text, type_str, start, end) ==
  [texts |-> Append(result.texts, text),
   token_types |-> Append(result.token_types, type_str),
   starts |-> Append(result.starts, start),
   ends |-> Append(result.ends, end)]

\* the peek loops of lines 59-64 and 74-79: the index of the last character
\* of the run of characters of cont that starts at index k, k - 1 if none
RunEnd(chars, k, cont) ==
  CHOOSE j \in (k - 1)..Len(chars) :
    /\ \A m \in k..j : chars[m] \in cont
    /\ j = Len(chars) \/ chars[j + 1] \notin cont

\* ch.is_alphanumeric() || ch == '_' and ch.is_numeric() || ch == '.'
IdentCont == Alphabetic \cup Numeric \cup {"_"}
NumberCont == Numeric \cup {"."}

\* the loop of lines 89-96 reading from index j on: the index of the last
\* character it takes, the closing quote or the last one of the text
RECURSIVE StringEnd(_, _, _, _)
StringEnd(chars, j, quote, escaped) ==
  IF j > Len(chars) THEN Len(chars)
  ELSE IF escaped THEN StringEnd(chars, j + 1, quote, FALSE)
  ELSE IF chars[j] = "\\" THEN StringEnd(chars, j + 1, quote, TRUE)
  ELSE IF chars[j] = quote THEN j
  ELSE StringEnd(chars, j + 1, quote, FALSE)

\* the while loop of lines 53-109 from the character with index k on
RECURSIVE JsLikeLoop(_, _, _)
JsLikeLoop(chars, k, result) ==
  IF k > Len(chars) THEN result
  ELSE
    LET c == chars[k]
        start_pos == ByteIndex(chars, k)
        taken == IF is_alphabetic(c) \/ c = "_" THEN RunEnd(chars, k + 1, IdentCont)
                ELSE IF is_numeric(c) THEN RunEnd(chars, k + 1, NumberCont)
                ELSE IF c \in QuoteMarks THEN StringEnd(chars, k + 1, c, FALSE)
                ELSE k
        end_byte == ByteIndex(chars, taken + 1)
        slice == ByteSlice(chars, start_pos, end_byte)
        text == [n \in 1..Len(slice) |-> chars[slice[n]]]
        type_str == IF is_alphabetic(c) \/ c = "_"
                      THEN (IF text \in keywords THEN "keyword" ELSE "identifier")
                    ELSE IF is_numeric(c) THEN "number"
                    ELSE IF c \in QuoteMarks THEN "string"
                    ELSE "operator"
    IN IF is_whitespace(c) THEN JsLikeLoop(chars, k + 1, result)
       ELSE JsLikeLoop(chars, taken + 1,
                       PushToken(result, text, type_str, start_pos, end_byte))

tokenize_js_like(code) == JsLikeLoop(code, 1, NoTokens)

\* a variant that searches the word from the start of the code
FindStartFromZero(bytes, pos, word) ==
  LET found == {o \in 0..(Len(bytes) - Len(word)) :
                  SubSeq(bytes, o + 1, o + Len(word)) = word}
  IN IF found = {} THEN pos
     ELSE CHOOSE o \in found : \A m \in found : o <= m

\* line 125: code[pos..].find(word).unwrap_or(0) + pos
FindStart(bytes, pos, word) ==
  LET found == {o \in pos..(Len(bytes) - Len(word)) :
                  SubSeq(bytes, o + 1, o + Len(word)) = word}
  IN IF found = {} THEN pos
     ELSE CHOOSE o \in found : \A m \in found : o <= m

\* the for loop of lines 118-134
RECURSIVE GenericLoop(_, _, _, _)
GenericLoop(code, words, pos, result) ==
  IF words = << >> THEN result
  ELSE LET word == Head(words)
           start == FindStart(Utf8Bytes(code), pos, Utf8Bytes(word))
           end == start + Len(Utf8Bytes(word))
       IN GenericLoop(code, Tail(words), end,
                      PushToken(result, word, "word", start, end))

tokenize_generic(code) == GenericLoop(code, SplitWhitespace(code), 0, NoTokens)

tokenize_python(code) == tokenize_generic(code)

tokenize_code(code, language_id) ==
  CASE language_id \in JsLikeLanguages -> tokenize_js_like(code)
    [] language_id = "python" -> tokenize_python(code)
    [] OTHER -> tokenize_generic(code)

\* lines 162-169: the state of the loop of remove_js_comments, i from 0
JsCommentsStart ==
  [i |-> 0, in_string |-> FALSE, string_char |-> " ",
   in_line_comment |-> FALSE, in_block_comment |-> FALSE, result |-> << >>]

\* the while loop of lines 171-222
RECURSIVE JsCommentsLoop(_, _)
JsCommentsLoop(chars, st) ==
  IF st.i >= Len(chars) THEN st.result
  ELSE
    LET c == chars[st.i + 1]
        NextIs(a, b) ==
          st.i + 1 < Len(chars) /\ c = a /\ chars[st.i + 2] = b
    IN IF st.in_line_comment
         THEN JsCommentsLoop(chars,
                IF c = NL
                  THEN [st EXCEPT !.in_line_comment = FALSE,
                                  !.result = Append(@, NL), !.i = @ + 1]
                  ELSE [st EXCEPT !.i = @ + 1])
       ELSE IF st.in_block_comment
         THEN JsCommentsLoop(chars,
                IF NextIs("*", "/")
                  THEN [st EXCEPT !.in_block_comment = FALSE, !.i = @ + 2]
                  ELSE [st EXCEPT !.i = @ + 1])
       ELSE IF st.in_string
         THEN JsCommentsLoop(chars,
                [st EXCEPT !.result = Append(@, c),
                           !.in_string =
                              ~(/\ c = st.string_char
                                /\ (st.i = 0 \/ chars[st.i] # "\\")),
                           !.i = @ + 1])
       ELSE IF c \in QuoteMarks
         THEN JsCommentsLoop(chars,
                [st EXCEPT !.in_string = TRUE, !.string_char = c,
                           !.result = Append(@, c), !.i = @ + 1])
       ELSE IF NextIs("/", "/")
         THEN JsCommentsLoop(chars,
                [st EXCEPT !.in_line_comment = TRUE, !.i = @ + 2])
       ELSE IF NextIs("/", "*")
         THEN JsCommentsLoop(chars,
                [st EXCEPT !.in_block_comment = TRUE, !.i = @ + 2])
       ELSE JsCommentsLoop(chars,
                [st EXCEPT !.result = Append(@, c), !.i = @ + 1])

remove_js_comments(code) == JsCommentsLoop(code, JsCommentsStart)

\* lines 228-237: each line up to its first #, joined with NL
remove_python_comments(code) ==
  LET lines == Lines(code)
      Cut(line) ==
        LET hashes == {k \in 1..Len(line) : line[k] = "#"}
        IN IF hashes = {} THEN line
           ELSE SubSeq(line, 1, (CHOOSE k \in hashes :
                                   \A m \in hashes : k <= m) - 1)
  IN JoinNL([k \in 1..Len(lines) |-> Cut(lines[k])])

remove_comments(code, language_id) ==
  CASE language_id \in JsLikeLanguages -> remove_js_comments(code)
    [] language_id = "python" -> remove_python_comments(code)
    [] OTHER -> code

\* The arguments the calls are checked with: every text of up to
\* MaxTokenCode characters for tokenize_code, every text of up to
\* MaxCommentCode characters for remove_comments, in three languages.
TokenAlphabet == {"i", "f", "1", ".", "\"", "\\", " ", EAcute}
CommentAlphabet == {"\"", "\\", "/", "*", NL, "a"}
TextsOver(alphabet, n) == UNION {[1..m -> alphabet] : m \in 0..n}
TextLanguages == {"typescript", "python", "rust"}

NoTextIn == [fn |-> "", code |-> << >>, language_id |-> ""]
NoTextOut == [tokens |-> NoTokens, text |-> << >>]
TextIdle == tIn = NoTextIn /\ tPc = "idle" /\ tOut = NoTextOut

TokenizeCode ==
  /\ tPc = "call" /\ tIn.fn = "tokenize_code"
  /\ tPc' = "done"
  /\ tOut' = [NoTextOut EXCEPT
                !.tokens = tokenize_code(tIn.code, tIn.language_id)]
  /\ UNCHANGED <<tIn, cacheVars, dupVars, astVars, hashVars, semVars>>

RemoveComments ==
  /\ tPc = "call" /\ tIn.fn = "remove_comments"
  /\ tPc' = "done"
  /\ tOut' = [NoTextOut EXCEPT
                !.text = remove_comments(tIn.code, tIn.language_id)]
  /\ UNCHANGED <<tIn, cacheVars, dupVars, astVars, hashVars, semVars>>

Batches == UNION {[1..n -> {"?"} \X LangIds] : n \in 0..MaxBatch}

Init ==
  /\ PARSERS = NoCache
  /\ LANGUAGES = NoCache
  /\ th = [p \in Procs |-> IdleThread]
  /\ last = NoLast
  /\ calls = 0
  /\ crashed = FALSE
  /\ batch = NoBatch
  /\ hist = NoHist
  /\ dIn = DupIdle
  /\ dPc = "idle"
  /\ dOut = NoOut
  /\ dSim = NoSim
  /\ AstIdle
  /\ HashIdle
  /\ SemIdle
  /\ TextIdle

Next ==
  \/ \E p \in Procs, l \in LangIds : CallParseAst(p, l)
  \/ \E p \in Procs, l \in LangIds : CallQueryAst(p, l)
  \/ \E p \in Procs : CallClearParserCache(p)
  \/ \E p \in Procs : CallGetCacheStats(p)
  \/ \E f \in Batches : BatchStart(f)
  \/ \E p \in Procs, i \in 1..MaxBatch : WorkerTake(p, i)
  \/ BatchReturn
  \/ \E p \in Procs, s \in Sites : InitCacheCheck(p, s)
  \/ \E p \in Procs, s \in Sites : InitCacheWriteParsers(p, s)
  \/ \E p \in Procs, s \in Sites : InitCacheCheckLanguages(p, s)
  \/ \E p \in Procs, s \in Sites : InitCacheWriteLanguages(p, s)
  \/ \E p \in Procs : GetParserContains(p)
  \/ \E p \in Procs, s \in {"gl", "ql"} : GetLanguage(p, s)
  \/ \E p \in Procs : GetParserInsert(p)
  \/ \E p \in Procs : GetParserGetMut(p)
  \/ \E p \in Procs, c \in Codes : ParseAstParse(p, c)
  \/ \E p \in Procs, c \in Codes, o \in RaceOutcomes : ParseAstParseRaced(p, c, o)
  \/ \E p \in Procs, c \in Codes : QueryAstParse(p, c)
  \/ \E p \in Procs, c \in Codes, o \in RaceOutcomes : QueryAstParseRaced(p, c, o)
  \/ \E p \in Procs, q \in Queries : QueryAstQuery(p, q)
  \/ \E p \in Procs : ClearParsers(p)
  \/ \E p \in Procs : ClearLanguages(p)
  \/ \E p \in Procs : GetCacheStatsRead(p)

Spec == Init /\ [][Next]_vars

\* parse_files_parallel on its own: no other call of the module is made
NextBatch ==
  \/ \E f \in Batches : BatchStart(f)
  \/ \E p \in Procs, i \in 1..MaxBatch : WorkerTake(p, i)
  \/ BatchReturn
  \/ \E p \in Procs, s \in Sites : InitCacheCheck(p, s)
  \/ \E p \in Procs, s \in Sites : InitCacheWriteParsers(p, s)
  \/ \E p \in Procs, s \in Sites : InitCacheCheckLanguages(p, s)
  \/ \E p \in Procs, s \in Sites : InitCacheWriteLanguages(p, s)
  \/ \E p \in Procs : GetParserContains(p)
  \/ \E p \in Procs : GetLanguage(p, "gl")
  \/ \E p \in Procs : GetParserInsert(p)
  \/ \E p \in Procs : GetParserGetMut(p)
  \/ \E p \in Procs, c \in Codes : ParseAstParse(p, c)
  \/ \E p \in Procs, c \in Codes, o \in RaceOutcomes : ParseAstParseRaced(p, c, o)

SpecBatch == Init /\ [][NextBatch]_vars

\* detect_duplicates called once on each of the arguments
InitDup ==
  /\ PARSERS = NoCache
  /\ LANGUAGES = NoCache
  /\ th = [p \in Procs |-> IdleThread]
  /\ last = NoLast
  /\ calls = 0
  /\ crashed = FALSE
  /\ batch = NoBatch
  /\ hist = NoHist
  /\ \E code \in DupCodes :
       \E context \in DupContexts(code), min_length \in MinLengths :
         dIn = [code |-> code, context |-> context, min_length |-> min_length]
  /\ dPc = "call"
  /\ dOut = NoOut
  /\ dSim = NoSim
  /\ AstIdle
  /\ HashIdle
  /\ SemIdle
  /\ TextIdle

NextDup ==
  \/ DetectDuplicates
  \/ CalculateSimilarity

SpecDup == InitDup /\ [][NextDup]_vars

\* the caches as they are before any call
CachesIdle ==
  /\ PARSERS = NoCache
  /\ LANGUAGES = NoCache
  /\ th = [p \in Procs |-> IdleThread]
  /\ last = NoLast
  /\ calls = 0
  /\ crashed = FALSE
  /\ batch = NoBatch
  /\ hist = NoHist

DupIdleVars == dIn = DupIdle /\ dPc = "idle" /\ dOut = NoOut /\ dSim = NoSim

\* node_to_ast called once on each of the arguments
InitAst ==
  /\ CachesIdle
  /\ DupIdleVars
  /\ \E source \in Sources :
       \E root \in NativeTrees(source, MaxDepth) :
         aIn = [root |-> root, source |-> source]
  /\ aPc = "call"
  /\ aOut = NoAst
  /\ HashIdle
  /\ SemIdle
  /\ TextIdle

NextAst == NodeToAst

SpecAst == InitAst /\ [][NextAst]_vars

\* the functions of hash.rs, and one StreamingHasher from its construction
InitHash ==
  /\ CachesIdle
  /\ DupIdleVars
  /\ AstIdle
  /\ HashIdle
  /\ SemIdle
  /\ TextIdle

NextHash ==
  \/ \E prompt \in Texts(MaxData) : HashPrompt(prompt)
  \/ \E parts \in PartLists : HashComposite(parts)
  \/ \E prompt \in Texts(MaxData) : HashPrompt128(prompt)
  \/ \E data \in Texts(MaxData) : StreamingUpdate(data)
  \/ StreamingDigestCall
  \/ StreamingDigest128Call
  \/ StreamingReset

SpecHash == InitHash /\ [][NextHash]_vars

\* the extractors of semantic_analyzer.rs called on each of the arguments
InitSem ==
  /\ CachesIdle
  /\ DupIdleVars
  /\ AstIdle
  /\ HashIdle
  /\ \E stmts \in UNION {[1..n -> Statements] : n \in 1..MaxStmts} :
       \E language_id \in SemLanguages :
         sIn = [stmts |-> stmts,
                code |-> JoinNL([k \in 1..Len(stmts) |-> stmts[k].text]),
                language_id |-> language_id]
  /\ sOut = NoSemOut
  /\ TextIdle

NextSem ==
  \/ ExtractImports
  \/ ExtractFunctions
  \/ ExtractDecorators

SpecSem == InitSem /\ [][NextSem]_vars

\* tokenize_code or remove_comments called once on each of the arguments
InitText ==
  /\ CachesIdle
  /\ DupIdleVars
  /\ AstIdle
  /\ HashIdle
  /\ SemIdle
  /\ \E language_id \in TextLanguages :
       \/ \E code \in TextsOver(TokenAlphabet, MaxTokenCode) :
            tIn = [fn |-> "tokenize_code", code |-> code,
                   language_id |-> language_id]
       \/ \E code \in TextsOver(CommentAlphabet, MaxCommentCode) :
            tIn = [fn |-> "remove_comments", code |-> code,
                   language_id |-> language_id]
  /\ tPc = "call"
  /\ tOut = NoTextOut

NextText ==
  \/ TokenizeCode
  \/ RemoveComments

SpecText == InitText /\ [][NextText]_vars

(***************************************************************************)
(* Properties of the parser and grammar caches (specification Spec).       *)
(***************************************************************************)
\* parse_ast called alone (no other call in flight) on the code c and the
\* language id l
StandaloneParseAst(c, l) ==
  IF Supported(l) THEN ParseResult(c, l) ELSE ErrUnsupported

\* thread p takes the step, inside a call it started earlier
StepOf(p) == th[p].pc # "idle" /\ th'[p].pc # th[p].pc /\ ~crashed'

\* C1: get_parser never hands one parser handle to two threads at a time:
\* while a thread holds a handle (from get_parser's return to the end of its
\* parse), no other thread holds the same handle.
C1_ExclusiveHandle ==
  \A p, q \in Procs : (p # q /\ th[p].h # 0) => th[p].h # th[q].h

\* C2: parse_files_parallel on N inputs returns N outputs, and output[i] is
\* what the parse_ast call on input[i] gave (made an Option by unwrap_or),
\* whatever the order the workers finished in; where that parse ran on a
\* parser no other thread touched, it is the standalone result of input[i].
C2_BatchIndexCorrespondence ==
  batch.state = "done" =>
    /\ Len(batch.results) = Len(batch.files)
    /\ \A i \in 1..Len(batch.files) :
         /\ batch.results[i] = UnwrapOrNone(batch.rets[i])
         /\ ~batch.rets[i].ub =>
              batch.results[i] =
                UnwrapOrNone(StandaloneParseAst(batch.files[i][1],
                                                batch.files[i][2]))

\* a finished batch with different results at its first two indices, of
\* which an item finished before an item of lower index
C2_Witness ==
  /\ batch.state = "done"
  /\ batch.reordered
  /\ batch.results[1].kind = "Some" /\ batch.results[2].kind = "Some"
  /\ batch.results[1] # batch.results[2]

\* C3: the batch never fails as a whole, and every index of its output holds
\* exactly what a standalone parse_ast of that item gives (None where it
\* fails), also when items of one language id run on different workers at
\* the same time.
C3_BatchItemsIsolated ==
  /\ batch.state # "panicked"
  /\ batch.state = "done" =>
       \A i \in 1..Len(batch.files) :
          batch.results[i] =
            UnwrapOrNone(StandaloneParseAst(batch.files[i][1],
                                            batch.files[i][2]))

\* C4: every step of a parse_ast or query_ast call with an unsupported
\* language id, run with no other call in flight, leaves the entries of both
\* caches (so both counts of get_cache_stats) as they are, and the call
\* returns UnsupportedLanguage; a parse_ast call run alone with a supported
\* id and a code the parser accepts succeeds from whatever state it starts.
C4_UnsupportedLeavesCaches ==
  [][\A p \in Procs :
       (StepOf(p) /\ th[p].alone /\ th[p].op \in {"parse_ast", "query_ast"}) =>
         /\ ~Supported(th[p].lang) =>
              /\ PARSERS'.map = PARSERS.map
              /\ LANGUAGES'.map = LANGUAGES.map
              /\ CacheStats' = CacheStats
              /\ th'[p].pc = "idle" => last'.ret = ErrUnsupported
         /\ (Supported(th[p].lang) /\ th'[p].pc = "idle"
               /\ th[p].op = "parse_ast" /\ ParserReturnsTree(last'.code)) =>
              last'.ret = OkTree(last'.code, LoadLanguage(th[p].lang))]_vars

\* an unsupported id was refused while a parser and a grammar were cached
C4_Witness ==
  /\ last.op = "parse_ast" /\ last.alone /\ ~Supported(last.lang)
  /\ last.ret = ErrUnsupported
  /\ CacheStats = <<1, 1>>

\* C5: an unknown language id always reaches the caller as
\* UnsupportedLanguage: from parse_ast and query_ast, and in
\* parse_files_parallel, where a None in the output stands for ParseFailed
\* only.
C5_UnsupportedSurfaced ==
  /\ (last.op \in {"parse_ast", "query_ast"} /\ ~Supported(last.lang)) =>
       last.ret = ErrUnsupported
  /\ batch.state = "done" =>
       \A i \in 1..Len(batch.files) :
          batch.results[i] = SlotNone => batch.rets[i].a = "ParseFailed"

\* C6: with no two calls overlapping, after clear_parser_cache
\* get_cache_stats reports 0 parsers and 0 languages, and after one
\* successful parse_ast or query_ast following it, 1 and 1.
C6_ClearThenRepopulate ==
  (Quiescent /\ ~hist.overlap /\ hist.cleared /\ ~hist.failed) =>
    /\ hist.n = 0 => CacheStats = <<0, 0>>
    /\ hist.n = 1 => CacheStats = <<1, 1>>
    /\ (last.op = "get_cache_stats" /\ hist.n = 0) => last.ret = OkStats(0, 0)

\* a cache holding a parser was cleared and one parse_ast succeeded since
C6_Witness ==
  /\ Quiescent /\ ~hist.overlap /\ hist.cleared /\ ~hist.failed
  /\ hist.prior > 0 /\ hist.n = 1
  /\ last.op = "parse_ast" /\ last.ret.kind = "Ok"

\* C7: after a sequence of successful parse_ast / query_ast calls (none
\* overlapping, none failed) since the start or the last clear, the parser
\* count and the language count both equal the number of distinct ids
\* requested, and no id had its grammar loaded or a parser created twice.
C7_OncePerLanguage ==
  (Quiescent /\ ~hist.overlap /\ ~hist.failed) =>
    /\ CacheStats = <<Cardinality(hist.ok), Cardinality(hist.ok)>>
    /\ DOMAIN PARSERS.map = hist.ok /\ DOMAIN LANGUAGES.map = hist.ok
    /\ hist.created = hist.ok /\ hist.loaded = hist.ok
    /\ ~hist.rehandle /\ ~hist.reload

\* three successful calls for two distinct ids: one id was requested again
C7_Witness ==
  /\ Quiescent /\ ~hist.overlap /\ ~hist.failed
  /\ hist.n = 3 /\ Cardinality(hist.ok) = 2

\* C8: a parser handle a thread holds stays in the cache, undropped, for as
\* long as the thread holds it, also when another thread calls
\* clear_parser_cache meanwhile.
C8_HeldHandleStaysCached ==
  \A p \in Procs : th[p].h # 0 => th[p].h \in Range(PARSERS.map)

\* C9: no step of get_cache_stats changes the entries of the parser cache
\* or of the grammar cache, whether or not the caches were initialised
\* when it was called.
C9_StatsLeavesCaches ==
  [][\A p \in Procs :
       (StepOf(p) /\ th[p].op = "get_cache_stats") =>
         (PARSERS'.map = PARSERS.map /\ LANGUAGES'.map = LANGUAGES.map)]_vars

\* the query_ast call that returned last
QueryReturned == last.op = "query_ast"

\* C24: query_ast looks the language up, parses, and compiles the query,
\* in this order: an unsupported language id gives UnsupportedLanguage and
\* a parse that yields no tree gives ParseFailed, both before the query
\* text is read; a call reaches the query only with a grammar and a tree,
\* and then a query that does not compile gives InvalidQuery, an error and
\* no list of matches.
C24_QuerySteps ==
  /\ QueryReturned =>
       /\ LoadLanguage(last.lang) = "unsupported"
            => (last.ret = ErrUnsupported /\ last.query = "")
       /\ (last.ret.kind = "Err" /\ last.ret.a = "ParseFailed")
            => (Supported(last.lang) /\ last.query = "")
       /\ last.query # "" =>
            /\ Supported(last.lang)
            /\ ParserReturnsTree(last.code)
            /\ QueryCompiles(last.query) <=> last.ret.kind = "Matches"
            /\ ~QueryCompiles(last.query) <=> last.ret = ErrInvalidQuery
  /\ \A p \in Procs :
       th[p].pc = "qa_query" =>
         /\ Supported(th[p].lang)
         /\ th[p].ret.kind = "Ok"
         /\ ParserReturnsTree(th[p].ret.a)

\* a query_ast call on a supported language and a code that parses
\* returned InvalidQuery
C24_Witness ==
  /\ QueryReturned
  /\ Supported(last.lang)
  /\ ParserReturnsTree(last.code)
  /\ last.query = "(("
  /\ last.ret = ErrInvalidQuery

\* C26: in every state in which no call is in progress, whatever the
\* interleaving of the calls before it, the language ids with a cached
\* parser are the language ids with a cached grammar, and a get_cache_stats
\* that ran on its own reports parsers = languages.
C26_ParsersMatchLanguages ==
  /\ Quiescent => DOMAIN PARSERS.map = DOMAIN LANGUAGES.map
  /\ (last.op = "get_cache_stats" /\ last.alone) => last.ret.n1 = last.ret.n2

(***************************************************************************)
(* Properties of detect_duplicates (specification SpecDup).                *)
(***************************************************************************)
Returned == dPc = "done" /\ ~dOut.panic

\* the candidate lines a span's text is made of (end_line is one past)
SpanLines(d) == d.start_line .. (d.end_line - 1)

\* C10: the list detect_duplicates returns is overlap-free: no two of its
\* spans intersect as closed intervals [start_line, end_line], and so no
\* two of them share a line of the candidate.
C10_OverlapFree ==
  Returned =>
    \A i, j \in 1..Len(dOut.spans) :
      i # j =>
        /\ ~(/\ dOut.spans[i].start_line <= dOut.spans[j].end_line
             /\ dOut.spans[j].start_line <= dOut.spans[i].end_line)
        /\ SpanLines(dOut.spans[i]) \cap SpanLines(dOut.spans[j]) = {}

\* two spans are returned, out of windows of which some overlapped
C10_Witness ==
  /\ Returned
  /\ Len(dOut.spans) = 2
  /\ Len(ScanSizes(Lines(dIn.code), dIn.context,
                   Min(Len(Lines(dIn.code)), MaxWindow), dIn.min_length)) > 2
  /\ dIn.min_length # NoMinLength

\* min_length.unwrap_or(20) of the call
MinLen == IF dIn.min_length = NoMinLength THEN DefaultMinLength ELSE dIn.min_length

\* C11: the spans detect_duplicates returns are in order of non-increasing
\* similarity: no span has a greater similarity than the span before it.
C11_SortedBySimilarity ==
  Returned =>
    \A k \in 1..(Len(dOut.spans) - 1) :
      dOut.spans[k].similarity.num * dOut.spans[k + 1].similarity.den
        >= dOut.spans[k + 1].similarity.num * dOut.spans[k].similarity.den

\* two spans of different similarity, the better one found later in the scan
C11_Witness ==
  /\ Returned
  /\ Len(dOut.spans) = 2
  /\ dOut.spans[1].similarity.num * dOut.spans[2].similarity.den
       > dOut.spans[2].similarity.num * dOut.spans[1].similarity.den
  /\ dOut.spans[1].end_line - dOut.spans[1].start_line
       = dOut.spans[2].end_line - dOut.spans[2].start_line
  /\ dOut.spans[1].start_line > dOut.spans[2].start_line

\* the span of the largest window among the returned spans
LargestSpan ==
  CHOOSE d \in Range(dOut.spans) :
    \A e \in Range(dOut.spans) :
      e.end_line - e.start_line <= d.end_line - d.start_line

\* C12: detect_duplicates of a candidate against itself, with min_length
\* below the candidate's number of lines, returns at least one span, and
\* the span of the largest window has similarity 1.0.
C12_SelfDuplicate ==
  (dPc = "done" /\ dIn.context = dIn.code /\ MinLen < Len(Lines(dIn.code))) =>
    /\ ~dOut.panic
    /\ Len(dOut.spans) >= 1
    /\ LargestSpan.similarity.num = LargestSpan.similarity.den

\* the candidate has a line that ends in "\r\n"
HasCRLF(t) == \E k \in 1..(Len(t) - 1) : t[k] = CR /\ t[k + 1] = NL

\* C12 (amended): detect_duplicates of a candidate against itself returns at
\* least one span, the span of the largest window having similarity 1.0,
\* when the candidate has a word, at most 50 lines and no "\r\n" ending,
\* and min_length is at least 1 and below the number of lines.
C12_SelfDuplicateWithinWindow ==
  (/\ dPc = "done"
   /\ dIn.context = dIn.code
   /\ MinLen >= 1
   /\ MinLen < Len(Lines(dIn.code))
   /\ Len(Lines(dIn.code)) <= MaxWindow
   /\ SplitWhitespace(dIn.code) # << >>
   /\ ~HasCRLF(dIn.code)) =>
    /\ ~dOut.panic
    /\ Len(dOut.spans) >= 1
    /\ LargestSpan.similarity.num = LargestSpan.similarity.den
    /\ LargestSpan.end_line - LargestSpan.start_line = Len(Lines(dIn.code))

\* a candidate of several lines, one of them blank, compared with itself
C12_Witness ==
  /\ Returned
  /\ dIn.context = dIn.code
  /\ MinLen >= 1
  /\ MinLen < Len(Lines(dIn.code))
  /\ SplitWhitespace(dIn.code) # << >>
  /\ << >> \in Range(Lines(dIn.code))
  /\ LargestSpan.similarity.num = LargestSpan.similarity.den
  /\ LargestSpan.end_line - LargestSpan.start_line = Len(Lines(dIn.code))

\* no word of the candidate is a word of the reference
DisjointVocabularies ==
  \A w \in Range(SplitWhitespace(dIn.code)) :
    w \notin Range(SplitWhitespace(dIn.context))

\* C13: when no word of the candidate occurs among the words of the
\* reference, detect_duplicates returns the empty list for min_length >= 1.
C13_DisjointGivesNone ==
  (dPc = "done" /\ DisjointVocabularies /\ MinLen >= 1) =>
    (~dOut.panic /\ dOut.spans = << >>)

\* a candidate with a word, found as a substring of a reference that has
\* none of its words
C13_Witness ==
  /\ Returned
  /\ DisjointVocabularies
  /\ dIn.min_length = 1
  /\ SplitWhitespace(dIn.code) # << >>
  /\ Find(dIn.context, JoinNL(Lines(dIn.code)))
  /\ dOut.spans = << >>

\* C14: calculate_similarity gives a value in [0,1], 0 when both texts have
\* no word, and every span detect_duplicates returns has a similarity above
\* 0.8 and at most 1.0.
C14_SimilarityRange ==
  /\ dSim # NoSim =>
       /\ dSim.den > 0 /\ 0 <= dSim.num /\ dSim.num <= dSim.den
       /\ (SplitWhitespace(dIn.code) = << >> /\ SplitWhitespace(dIn.context) = << >>)
            => dSim.num = 0
  /\ Returned =>
       \A k \in 1..Len(dOut.spans) :
         /\ 5 * dOut.spans[k].similarity.num > 4 * dOut.spans[k].similarity.den
         /\ dOut.spans[k].similarity.num <= dOut.spans[k].similarity.den

\* a similarity strictly between 0 and 1 was computed, and a span of
\* similarity strictly between 0.8 and 1.0 is returned
C14_Witness ==
  /\ dSim # NoSim /\ 0 < dSim.num /\ dSim.num < dSim.den
  /\ Returned
  /\ \E k \in 1..Len(dOut.spans) :
       dOut.spans[k].similarity.num < dOut.spans[k].similarity.den

\* the largest window size the scan starts from: min(50, total lines)
LargestWindow ==
  IF Len(Lines(dIn.code)) < MaxWindow THEN Len(Lines(dIn.code)) ELSE MaxWindow

\* C20: detect_duplicates examines the window sizes from min(50, total
\* candidate lines) down to min_length only: every returned span has at
\* least min_length and at most 50 candidate lines, and the result is empty
\* when min_length exceeds min(50, total candidate lines).
C20_WindowSizes ==
  Returned =>
    /\ \A k \in 1..Len(dOut.spans) :
         /\ dOut.spans[k].end_line - dOut.spans[k].start_line >= MinLen
         /\ dOut.spans[k].end_line - dOut.spans[k].start_line <= LargestWindow
         /\ dOut.spans[k].end_line <= Len(Lines(dIn.code))
    /\ MinLen > LargestWindow => dOut.spans = << >>

\* a candidate of more than 50 lines, scanned with the default min_length,
\* gives a span of exactly 50 lines
C20_Witness ==
  /\ Returned
  /\ Len(Lines(dIn.code)) > MaxWindow
  /\ dIn.min_length = NoMinLength
  /\ \E k \in 1..Len(dOut.spans) :
       dOut.spans[k].end_line - dOut.spans[k].start_line = MaxWindow

\* the spans detect_duplicates collects before overlap resolution
Retained ==
  ScanSizes(Lines(dIn.code), dIn.context, LargestWindow, MinLen)

\* the number of lines of a joined window text
TextLineCount(text) == 1 + Cardinality({k \in 1..Len(text) : text[k] = NL})

\* C21: every span detect_duplicates reports describes the line range its
\* text occupies: the text is the candidate's lines start_line through
\* end_line (closed) joined with newlines, it has end_line - start_line + 1
\* lines, and two collected windows that share no line are not treated as
\* intersecting by the overlap test.
C21_TextOccupiesClosedRange ==
  Returned =>
    /\ \A k \in 1..Len(dOut.spans) :
         LET d == dOut.spans[k]
         IN /\ d.end_line < Len(Lines(dIn.code))
            /\ d.text = JoinNL(SubSeq(Lines(dIn.code),
                                      d.start_line + 1, d.end_line + 1))
            /\ TextLineCount(d.text) = d.end_line - d.start_line + 1
    /\ \A i, j \in 1..Len(Retained) :
         SpanLines(Retained[i]) \cap SpanLines(Retained[j]) = {}
           => ~ranges_overlap(Retained[i].start_line, Retained[i].end_line,
                              Retained[j].start_line, Retained[j].end_line)

\* two spans of the collected list r that intersect and have equal
\* similarity, the first of them from the larger window
TiedPair(r, i, j) ==
  /\ r[i].end_line - r[i].start_line > r[j].end_line - r[j].start_line
  /\ ~SimGreater(r[i].similarity, r[j].similarity)
  /\ ~SimGreater(r[j].similarity, r[i].similarity)
  /\ ranges_overlap(r[i].start_line, r[i].end_line,
                    r[j].start_line, r[j].end_line)

\* C22: of two collected spans that intersect and have equal similarity,
\* overlap resolution keeps the one from the larger window and drops the
\* shorter one.
C22_LargerWindowKept ==
  Returned =>
    LET r == Retained
        kept == Range(dOut.spans)
    IN \A i, j \in 1..Len(r) :
         TiedPair(r, i, j) => (r[i] \in kept /\ r[j] \notin kept)

\* the span with index k of the collected list r comes before the span with
\* index i in the sorted list
SortedBefore(r, k, i) ==
  \/ SimGreater(r[k].similarity, r[i].similarity)
  \/ /\ ~SimGreater(r[i].similarity, r[k].similarity)
     /\ k < i

\* C22 (amended): of two collected spans that intersect and have equal
\* similarity, overlap resolution never keeps both; it keeps the one from
\* the larger window and drops the shorter one, unless the larger one
\* intersects a kept span of higher similarity or of equal similarity
\* that was collected before it.
C22_LargerWindowKeptUnlessBeaten ==
  Returned =>
    LET r == Retained
        kept == Range(dOut.spans)
    IN \A i, j \in 1..Len(r) :
         TiedPair(r, i, j) =>
           /\ r[i] \in kept => r[j] \notin kept
           /\ \/ r[i] \in kept
              \/ \E k \in 1..Len(r) :
                   /\ r[k] \in kept
                   /\ SortedBefore(r, k, i)
                   /\ ranges_overlap(r[k].start_line, r[k].end_line,
                                     r[i].start_line, r[i].end_line)

\* a tie between a larger and a shorter window was resolved for the larger
C22_Witness ==
  /\ Returned
  /\ LET r == Retained
         kept == Range(dOut.spans)
     IN \E i, j \in 1..Len(r) :
          TiedPair(r, i, j) /\ r[i] \in kept /\ r[j] \notin kept

\* C23: overlap resolution is maximal and biased to higher similarity:
\* every collected span (similarity > 0.8) that is missing from the list
\* detect_duplicates returns intersects, as closed interval [start_line,
\* end_line], a returned span whose similarity is at least its own.
C23_DroppedHasSurvivor ==
  Returned =>
    LET r == Retained
        kept == Range(dOut.spans)
    IN /\ kept \subseteq Range(r)
       /\ \A i \in 1..Len(r) :
            r[i] \notin kept =>
              \E d \in kept :
                /\ d.start_line <= r[i].end_line
                /\ r[i].start_line <= d.end_line
                /\ ~SimGreater(r[i].similarity, d.similarity)

\* two spans are returned and a collected span was dropped for one of them
C23_Witness ==
  /\ Returned
  /\ Len(dOut.spans) >= 2
  /\ \E i \in 1..Len(Retained) : Retained[i] \notin Range(dOut.spans)

\* C27: detect_duplicates completes and returns a list for every value of
\* min_length, 0 and values above the candidate's line count included, and
\* for an empty candidate: no call ends in a failure.
C27_AlwaysReturns ==
  dPc = "done" => ~dOut.panic

(***************************************************************************)
(* Properties of node_to_ast (specification SpecAst).                      *)
(***************************************************************************)
\* the AstNodes of the tree below and including ast
RECURSIVE AstNodes(_)
AstNodes(ast) ==
  {ast} \cup UNION {AstNodes(ast.children[i]) : i \in 1..Len(ast.children)}

\* the native node and the AstNode made of it have the same shape, and each
\* leaf has the bytes of its range as text, or "" when they are no UTF-8
RECURSIVE LeafTexts(_, _)
LeafTexts(node, ast) ==
  /\ Len(ast.children) = Len(node.children)
  /\ Len(node.children) = 0 =>
       LET bytes == SubSeq(aIn.source, node.start_byte + 1, node.end_byte)
       IN ast.text = SomeText(IF Utf8Valid(bytes) THEN bytes ELSE << >>)
  /\ \A i \in 1..Len(node.children) : LeafTexts(node.children[i], ast.children[i])

\* C15: in the tree node_to_ast gives, a node has text exactly when it has
\* no children; a leaf whose bytes are no UTF-8 has the empty string as
\* text, and the conversion gives a tree for every input.
C15_TextIffLeaf ==
  /\ aPc = "done" =>
       /\ \A n \in AstNodes(aOut) : n.text.some <=> n.children = << >>
       /\ LeafTexts(aIn.root, aOut)
  /\ aPc = "call" => ENABLED NodeToAst

\* a tree of three levels with a leaf that ends inside a character and a
\* leaf that has its text
C15_Witness ==
  /\ aPc = "done"
  /\ \E n \in AstNodes(aOut) : n.children # << >> /\ n.text = NoText
  /\ \E i \in 1..Len(aIn.root.children) :
       \E j \in 1..Len(aIn.root.children[i].children) :
         LET leaf == aIn.root.children[i].children[j]
         IN /\ leaf.children = << >>
            /\ ~Utf8Valid(SubSeq(aIn.source, leaf.start_byte + 1, leaf.end_byte))
            /\ aOut.children[i].children[j].text = SomeText(<< >>)
  /\ \E n \in AstNodes(aOut) : n.text.some /\ n.text.value # << >>

(***************************************************************************)
(* Properties of hash.rs (specification SpecHash).                         *)
(***************************************************************************)
Width64 == 16

\* C16: the hex digests have a fixed width: hash_prompt, hash_composite and
\* StreamingHasher.digest give 16 hex characters, hash_prompt_128 and
\* StreamingHasher.digest128 give 32, whatever the digest's leading digits.
C16_FixedWidth ==
  /\ hOut.fn \in {"hash_prompt", "hash_composite", "digest"} =>
       Len(hOut.ret) = Width64
  /\ hOut.fn \in {"hash_prompt_128", "digest128"} =>
       Len(hOut.ret) = Width128

\* C28: on a StreamingHasher, after any calls of update, digest, digest128
\* and reset, digest gives hash_prompt of the data passed to update since
\* the last reset (or the construction), joined, and digest128 gives
\* hash_prompt_128 of it; digest and digest128 leave the hasher as it is,
\* and after reset the hasher is a new hasher.
C28_StreamingMatchesOneShot ==
  /\ [](/\ hOut.fn = "digest" => hOut.ret = hash_prompt(hFed.data)
        /\ hOut.fn = "digest128" => hOut.ret = hash_prompt_128(hFed.data)
        /\ hOut.fn = "reset" => hData = Xxh3New)
  /\ [][hOut'.fn \in {"digest", "digest128"} => hData' = hData]_vars

\* digest was called after two updates with data
C28_Witness ==
  /\ hOut.fn = "digest"
  /\ hFed.updates = 2
  /\ hFed.data = "ubu"
  /\ hOut.ret = hash_prompt("ubu")

\* the parts joined with no separator
RECURSIVE Concat(_)
Concat(parts) ==
  IF parts = << >> THEN "" ELSE Head(parts) \o Concat(Tail(parts))

\* C29: hash_composite depends only on the concatenation of its parts: it
\* gives hash_prompt of the parts joined with no separator, and so the same
\* key for two part lists of the same concatenation.
C29_CompositeOfConcatenation ==
  hOut.fn = "hash_composite" =>
    /\ hOut.ret = hash_prompt(Concat(hOut.arg))
    /\ \A parts \in PartLists :
         Concat(parts) = Concat(hOut.arg) => hash_composite(parts) = hOut.ret

\* hash_composite(["ab", "u"]) gave the key of ["a", "bu"]
C29_Witness ==
  /\ hOut.fn = "hash_composite"
  /\ hOut.arg = <<"ab", "u">>
  /\ hOut.ret = hash_composite(<<"a", "bu">>)
  /\ hOut.ret # hash_composite(<<"u", "ab">>)

(***************************************************************************)
(* Properties of semantic_analyzer.rs (specification SpecSem).             *)
(***************************************************************************)
\* the lines (from 1) of the code that hold a statement of one of the kinds
StmtLines(kinds) ==
  SelectSeq([k \in 1..Len(sIn.stmts) |-> k],
            LAMBDA k : sIn.stmts[k].kind \in kinds)

\* C17: for TypeScript/JavaScript code extract_imports gives exactly one
\* ImportInfo per import statement, in document order, with the quoted
\* specifier as module and, as imports, the named bindings split at commas
\* and trimmed, or the one default or namespace binding with is_default or
\* is_namespace set.
C17_OneImportPerStatement ==
  (sOut.fn = "extract_imports" /\ sIn.language_id \in TsLanguages) =>
    LET lines == StmtLines({"import", "require"})
    IN /\ Len(sOut.ret) = Len(lines)
       /\ \A j \in 1..Len(lines) :
            LET stmt == sIn.stmts[lines[j]]
                info == sOut.ret[j]
            IN /\ info.module = stmt.name
               /\ stmt.form \in {"named", "default", "namespace"} =>
                    /\ info.imports = stmt.bindings
                    /\ info.is_default = (stmt.form = "default")
                    /\ info.is_namespace = (stmt.form = "namespace")

\* C18: for TypeScript/JavaScript code extract_functions gives one
\* FunctionInfo per named function declaration and per const/let/var arrow
\* function binding, with is_async true exactly for the functions declared
\* with the async keyword.
C18_OneFunctionPerDeclaration ==
  (sOut.fn = "extract_functions" /\ sIn.language_id \in TsLanguages) =>
    LET lines == StmtLines({"function", "arrow"})
    IN /\ Len(sOut.ret) = Len(lines)
       /\ \A j \in 1..Len(lines) :
            \E i \in 1..Len(sOut.ret) :
              /\ sOut.ret[i].name = sIn.stmts[lines[j]].name
              /\ sOut.ret[i].line_number = lines[j] - 1
              /\ sOut.ret[i].is_async = sIn.stmts[lines[j]].flag

\* C19: for TypeScript/JavaScript code extract_decorators gives one
\* DecoratorInfo per decorator, in document order, with the identifier
\* after "@" as name and the 0-based line the decorator starts on as
\* line_number.
C19_OneDecoratorPerOccurrence ==
  (sOut.fn = "extract_decorators" /\ sIn.language_id \in TsLanguages) =>
    LET lines == StmtLines({"decorator"})
    IN /\ Len(sOut.ret) = Len(lines)
       /\ \A j \in 1..Len(lines) :
            /\ sOut.ret[j].name = sIn.stmts[lines[j]].name
            /\ sOut.ret[j].line_number = lines[j] - 1

(***************************************************************************)
(* Properties of text_processor.rs (specification SpecText).               *)
(***************************************************************************)
\* The text without its comments.  The scan is in "code", in a string
\* literal (mode is its quote, escaped says that the last character was an
\* unescaped backslash), in a line comment or in a block comment; a
\* comment starts only in "code", a line comment ends before its newline,
\* a block comment with its "*/".
RECURSIVE WithoutComments(_, _, _, _)
WithoutComments(chars, k, mode, escaped) ==
  IF k > Len(chars) THEN << >>
  ELSE
    LET c == chars[k]
        Two(a, b) == k < Len(chars) /\ c = a /\ chars[k + 1] = b
    IN CASE mode = "line" ->
              IF c = NL THEN <<c>> \o WithoutComments(chars, k + 1, "code", FALSE)
              ELSE WithoutComments(chars, k + 1, "line", FALSE)
         [] mode = "block" ->
              IF Two("*", "/") THEN WithoutComments(chars, k + 2, "code", FALSE)
              ELSE WithoutComments(chars, k + 1, "block", FALSE)
         [] mode = "code" ->
              IF c \in QuoteMarks
                THEN <<c>> \o WithoutComments(chars, k + 1, c, FALSE)
              ELSE IF Two("/", "/") THEN WithoutComments(chars, k + 2, "line", FALSE)
              ELSE IF Two("/", "*") THEN WithoutComments(chars, k + 2, "block", FALSE)
              ELSE <<c>> \o WithoutComments(chars, k + 1, "code", FALSE)
         [] OTHER ->
              <<c>> \o (IF escaped THEN WithoutComments(chars, k + 1, mode, FALSE)
                        ELSE IF c = "\\" THEN WithoutComments(chars, k + 1, mode, TRUE)
                        ELSE IF c = mode THEN WithoutComments(chars, k + 1, "code", FALSE)
                        ELSE WithoutComments(chars, k + 1, mode, FALSE))

RemovedComments ==
  tPc = "done" /\ tIn.fn = "remove_comments"
    /\ tIn.language_id \in JsLikeLanguages

\* C25: for the JS-like languages remove_comments removes exactly the
\* comments: every line comment up to its newline and every block comment
\* that starts outside a string literal is deleted, every other character
\* is kept, in order, also a comment opener inside a string literal and
\* the code after a string literal that ends in an escaped backslash.
C25_RemovesExactlyComments ==
  RemovedComments => tOut.text = WithoutComments(tIn.code, 1, "code", FALSE)

Tokenized == tPc = "done" /\ tIn.fn = "tokenize_code"

\* C30: for every input and language id tokenize_code gives four arrays of
\* equal length; each token has starts[k] < ends[k] and as text the bytes
\* [starts[k], ends[k]) of the input, the tokens do not overlap and are in
\* document order (ends[k] <= starts[k+1]), and every character of the
\* input that is not whitespace lies in exactly one token.
C30_TokensCoverInput ==
  Tokenized =>
    LET r == tOut.tokens
        n == Len(r.texts)
        bytes == Utf8Bytes(tIn.code)
    IN /\ Len(r.token_types) = n /\ Len(r.starts) = n /\ Len(r.ends) = n
       /\ \A k \in 1..n :
            /\ r.starts[k] < r.ends[k]
            /\ r.ends[k] <= Len(bytes)
            /\ Utf8Bytes(r.texts[k]) = SubSeq(bytes, r.starts[k] + 1, r.ends[k])
       /\ \A k \in 1..(n - 1) : r.ends[k] <= r.starts[k + 1]
       /\ \A m \in 1..Len(tIn.code) :
            ~is_whitespace(tIn.code[m]) =>
              Cardinality({k \in 1..n :
                             /\ r.starts[k] <= ByteIndex(tIn.code, m)
                             /\ ByteIndex(tIn.code, m + 1) <= r.ends[k]}) = 1

\* the generic tokenizer found a word that also occurs, earlier, inside
\* another word, after a letter of two bytes
C30_Witness ==
  /\ Tokenized
  /\ tIn.language_id = "python"
  /\ tIn.code = <<EAcute, "f", " ", "f">>
  /\ tOut.tokens.texts = <<<<EAcute, "f">>, <<"f">>>>
  /\ tOut.tokens.starts = <<0, 4>>
  /\ tOut.tokens.ends = <<3, 5>>

====
